---------------------------- MODULE Spec2Model ----------------------------
(***************************************************************************)
(* Model of the wrparse GLL parsing engine (src/src/Parser.cxx), its       *)
(* grammar analysis (src/src/Grammar.cxx) and its SPPF construction        *)
(* (src/src/SPPF.cxx).                                                     *)
(*                                                                         *)
(* Conventions.  Pointers are modelled by identities: a NonTerminal is its *)
(* index in the grammar, a Rule is (nonterminal, rule index), a grammar    *)
(* slot (GrammarAddress) is (nonterminal, rule index, component index), a  *)
(* Token is its position in the token list (1 = first token read), an SPPF *)
(* node is its allocation number.  Rule and component indices are 0-based  *)
(* as in the source; the null pointer is 0 (NullAddr for slots).           *)
(***************************************************************************)
EXTENDS Integers, Sequences, FiniteSets, TLC

\* ------------------------------------------------------------------------
\* Token kinds (include/wrparse/Token.h)
TOK_NULL == 0
TOK_EOF == 1
TOK_USER_MIN == 1024
ta == TOK_USER_MIN
tb == TOK_USER_MIN + 1
tc == TOK_USER_MIN + 2

Kinds == {TOK_NULL, TOK_EOF, ta, tb, tc}

\* longest input (number of tokens before end of input) that is explored
MaxInputLen == 3

\* ------------------------------------------------------------------------
\* Grammar construction helpers (include/wrparse/Grammar.h)

\* Component(TokenKind terminal, bool is_optional, Predicate predicate)
T(k) == [isTerminal |-> TRUE, sym |-> k, optional |-> FALSE, pred |-> "none"]
\* Component(const NonTerminal &, bool is_optional, Predicate predicate)
N(n) == [isTerminal |-> FALSE, sym |-> n, optional |-> FALSE, pred |-> "none"]
\* opt(...)
Opt(c) == [c EXCEPT !.optional = TRUE]
\* pred(..., predicate); the predicate's verdict is fixed per component
Pred(c, verdict) == [c EXCEPT !.pred = verdict]
\* Rule(init, enable)
Rule(cs) == [comps |-> cs, enabled |-> TRUE]
Disabled(r) == [r EXCEPT !.enabled = FALSE]
\* NonTerminal(name, rules, flags); pre/post: the verdicts of the registered
\* pre-parse / post-parse actions, in the order of registration
NT(rs) == [rules |-> rs, transparent |-> FALSE, hideIfDelegate |-> FALSE,
           keepRecursion |-> FALSE, pre |-> << >>, post |-> << >>]

NullAddr == [nt |-> 0, rule |-> 0, idx |-> 0]
Addr(n, r, i) == [nt |-> n, rule |-> r, idx |-> i]

\* ------------------------------------------------------------------------
\* The grammars explored.  Nonterminal 1 is the start symbol.

\* S := S S | 'a'                       (ambiguous, left recursive)
G_Ambig == << NT(<< Rule(<<N(1), N(1)>>), Rule(<<T(ta)>>) >>) >>
\* S := S 'a' | 'b'                     (left recursive, flattened)
G_LeftRec == << NT(<< Rule(<<N(1), T(ta)>>), Rule(<<T(tb)>>) >>) >>
\* the same with KEEP_RECURSION
G_KeepRec == << [NT(<< Rule(<<N(1), T(ta)>>), Rule(<<T(tb)>>) >>)
                   EXCEPT !.keepRecursion = TRUE] >>
\* S := S | 'a'                         (a rule deriving its own nonterminal)
G_Cyclic == << NT(<< Rule(<<N(1)>>), Rule(<<T(ta)>>) >>) >>
\* S := C 'b' | C 'c' ;  C := A 'a' ;  A := 'a'     (shared call of C and A)
G_Shared == << NT(<< Rule(<<N(2), T(tb)>>), Rule(<<N(2), T(tc)>>) >>),
               NT(<< Rule(<<N(3), T(ta)>>) >>),
               NT(<< Rule(<<T(ta)>>) >>) >>
\* S := 'a' opt(B) 'c' | 'a' B ;  B := 'b' | 'b' 'c'   (optional, prefixes)
G_Opt == << NT(<< Rule(<<T(ta), Opt(N(2)), T(tc)>>), Rule(<<T(ta), N(2)>>) >>),
            NT(<< Rule(<<T(tb)>>), Rule(<<T(tb), T(tc)>>) >>) >>
\* S := E 'c' | E ;  E := D ;  D := 'a' | 'a' 'b'
\* with HIDE_IF_DELEGATE on E
G_Hide == << NT(<< Rule(<<N(2), T(tc)>>), Rule(<<N(2)>>) >>),
             [NT(<< Rule(<<N(3)>>) >>) EXCEPT !.hideIfDelegate = TRUE],
             NT(<< Rule(<<T(ta)>>), Rule(<<T(ta), T(tb)>>) >>) >>
\* S := A A 'c' ;  A := opt('a') | 'a' opt('b')        (empty matches)
G_Empty == << NT(<< Rule(<<N(2), N(2), T(tc)>>) >>),
              NT(<< Rule(<<Opt(T(ta))>>), Rule(<<T(ta), Opt(T(tb))>>) >>) >>
\* S := 'a' | 'a' 'b' | opt('a') opt('b') 'c'          (top-level prefixes)
G_Prefix == << NT(<< Rule(<<T(ta)>>), Rule(<<T(ta), T(tb)>>),
                     Rule(<<Opt(T(ta)), Opt(T(tb)), T(tc)>>) >>) >>
\* S := pred 'a' 'b' ; predicate fails / post-parse action fails
G_Pred == << [NT(<< Rule(<<Pred(T(ta), "fail"), T(tb)>>),
                    Rule(<<T(ta), Pred(T(tb), "pass")>>) >>)
               EXCEPT !.post = << FALSE, TRUE >>] >>
\* S := A 'b' ; A := 'a' with a failing pre-parse action on A
G_Pre == << NT(<< Rule(<<N(2), T(tb)>>), Rule(<<T(ta)>>) >>),
            [NT(<< Rule(<<T(ta)>>) >>) EXCEPT !.pre = << TRUE, FALSE >>] >>

\* S := opt('a') | 'b' 'c' | 'b'        (an empty and two non-empty matches)
G_Tie == << NT(<< Rule(<<Opt(T(ta))>>), Rule(<<T(tb), T(tc)>>),
                  Rule(<<T(tb)>>) >>) >>
\* S := S 'c' | B 'c' ;  B := 'a' 'b'   (B is LL(1): begun on the fast path)
G_Fast == << NT(<< Rule(<<N(1), T(tc)>>), Rule(<<N(2), T(tc)>>) >>),
             NT(<< Rule(<<T(ta), T(tb)>>) >>) >>

\* S := S 'a' | E ;  E := E 'b' | 'c' with KEEP_RECURSION on E only
G_Mixed == << NT(<< Rule(<<N(1), T(ta)>>), Rule(<<N(2)>>) >>),
              [NT(<< Rule(<<N(2), T(tb)>>), Rule(<<T(tc)>>) >>)
                 EXCEPT !.keepRecursion = TRUE] >>

\* S := 'a' 'c' | 'a' 'b' 'c' | 'a' 'b' 'b' | 'a' 'a'   (rules that fail at
\* different offsets)
G_Far == << NT(<< Rule(<<T(ta), T(tc)>>), Rule(<<T(ta), T(tb), T(tc)>>),
                  Rule(<<T(ta), T(tb), T(tb)>>), Rule(<<T(ta), T(ta)>>) >>) >>

\* S := 'a' pred 'b' | 'a' 'c' | 'a' pred 'b' 'c' ; the predicate fails
G_Sem == << NT(<< Rule(<<T(ta), Pred(T(tb), "fail")>>),
                  Rule(<<T(ta), T(tc)>>),
                  Rule(<<T(ta), Pred(T(tb), "fail"), T(tc)>>) >>) >>

\* S with no rule at all
G_None == << NT(<< >>) >>

\* S := 'a' 'b' | 'a', both rules disabled
G_Off == << NT(<< Disabled(Rule(<<T(ta), T(tb)>>)),
                  Disabled(Rule(<<T(ta)>>)) >>) >>

\* S := 'a' E ;  E := 'b' | 'c' with the rule E := 'c' disabled
G_Part == << NT(<< Rule(<<T(ta), N(2)>>) >>),
             NT(<< Rule(<<T(tb)>>), Disabled(Rule(<<T(tc)>>)) >>) >>

\* S := A 'c' ;  A := 'a' E ;  E := opt('b')   (E ends the rule of A, whose
\* call is followed by 'c')
G_Follow == << NT(<< Rule(<<N(2), T(tc)>>) >>),
               NT(<< Rule(<<T(ta), N(3)>>) >>),
               NT(<< Rule(<<Opt(T(tb))>>) >>) >>

\* S := A 'b' | B 'b' | 'a' ;  A := 'a' ;  B := 'a' | 'a' 'c' with a failing
\* pre-parse action on A (begun on the fast path) and on B (begun through
\* descriptors)
G_PrePaths == << NT(<< Rule(<<N(2), T(tb)>>), Rule(<<N(3), T(tb)>>),
                       Rule(<<T(ta)>>) >>),
                 [NT(<< Rule(<<T(ta)>>) >>) EXCEPT !.pre = << TRUE, FALSE >>],
                 [NT(<< Rule(<<T(ta)>>), Rule(<<T(ta), T(tc)>>) >>)
                    EXCEPT !.pre = << FALSE >>] >>

Grammars == << G_Ambig, G_LeftRec, G_KeepRec, G_Cyclic, G_Shared, G_Opt,
               G_Hide, G_Empty, G_Prefix, G_Pred, G_Pre, G_Tie, G_Fast,
               G_Mixed, G_Far, G_Sem, G_None, G_Off, G_Part, G_Follow,
               G_PrePaths >>

\* a run of 'a' one token longer than the other inputs
RunOfA == [i \in 1..(MaxInputLen + 1) |-> ta]

Inputs == UNION { [1..n -> {ta, tb, tc}] : n \in 0..MaxInputLen }
            \cup {RunOfA}

\* ------------------------------------------------------------------------
\* Grammar accessors

\* variant of invokeActions that returns the verdict of the last action
invokeActions_last(in) == in = << >> \/ in[Len(in)]

\* NonTerminal::invokeActions: every action is called, all must accept
invokeActions(in) == \A i \in 1..Len(in) : in[i]

NTs(G) == 1..Len(G)
RuleOf(G, n, r) == G[n].rules[r + 1]
RuleLen(G, n, r) == Len(RuleOf(G, n, r).comps)
\* *address
CompAt(G, a) == RuleOf(G, a.nt, a.rule).comps[a.idx + 1]
\* address == rule.end()
AtEnd(G, a) == a.idx = RuleLen(G, a.nt, a.rule)
\* std::next(address)
NextAddr(a) == [a EXCEPT !.idx = a.idx + 1]

\* Component::getAsNonTerminal (0 = nullptr)
getAsNonTerminal(c) == IF c.isTerminal THEN 0 ELSE c.sym
\* Component::getAsTerminal
getAsTerminal(c) == IF c.isTerminal THEN c.sym ELSE TOK_NULL

\* variant of isRecursive that finds no component recursive
isRecursive_never(G, a) == FALSE

\* Component::isRecursive
isRecursive(G, a) == a.nt = getAsNonTerminal(CompAt(G, a))

\* Rule::isDelegate
isDelegate(G, n, r) ==
    /\ RuleLen(G, n, r) # 0
    /\ getAsNonTerminal(RuleOf(G, n, r).comps[1]) # 0
    /\ RuleLen(G, n, r) = 1

\* Rule::mustHide
mustHide(G, n, r) ==
    G[n].transparent \/ (isDelegate(G, n, r) /\ G[n].hideIfDelegate)

\* ------------------------------------------------------------------------
\* Grammar analysis: the memoized first-set / matches-empty / LL(1) state
\* of every nonterminal (mutable members of NonTerminal)

\* binds the value v to the parameter of F: a local variable of the code,
\* computed once
Let(v, F(_)) == CHOOSE r \in {F(x) : x \in {v}} : TRUE

\* the same for a step of the program: F is an action
With(v, F(_)) == F(v)

NoTerminals == [k \in Kinds |-> << >>]

AnalysisInit(G) ==
    [n \in NTs(G) |-> [got_initial_terminals |-> FALSE, is_ll1 |-> FALSE,
                       matches_empty |-> FALSE,
                       initial_terminals |-> NoTerminals]]

\* initial_terminals_.empty()
TerminalsEmpty(ts) == \A k \in Kinds : ts[k] = << >>

\* NonTerminal::updateTerminalsAndLL1
updateTerminalsAndLL1(an, n, t, r) ==
    [an EXCEPT ![n].is_ll1 = an[n].is_ll1 /\ an[n].initial_terminals[t] = << >>,
               ![n].initial_terminals[t] = Append(@, r)]

\* the loop "for (auto &i: other->initial_terminals_) update(i.first, rule)"
RECURSIVE UpdateAll(_, _, _, _)
UpdateAll(an, n, ks, r) ==
    IF ks = {} THEN an
    ELSE LET k == CHOOSE x \in ks : \A y \in ks : x <= y
         IN UpdateAll(updateTerminalsAndLL1(an, n, k, r), n, ks \ {k}, r)

KeysOf(ts) == {k \in Kinds : ts[k] # << >>}

RECURSIVE initTerminalsAndLL1(_, _, _, _)
RECURSIVE InitRulesFrom(_, _, _, _, _, _, _)
RECURSIVE initTerminalsAndLL1Rule(_, _, _, _, _, _, _, _)

\* NonTerminal::initTerminalsAndLL1(visited, rule), from component i on;
\* rme = rule_matches_empty, lone = depends_on_lone_predicate
initTerminalsAndLL1Rule(G, an, visited, n, r, i, rme, lone) ==
    IF i >= RuleLen(G, n, r)
    THEN \* loop ran off the end of the rule
         IF lone
         THEN [an |-> [an EXCEPT ![n].is_ll1 = FALSE,
                                 ![n].initial_terminals = NoTerminals],
               visited |-> visited, status |-> "INDETERMINATE"]
         ELSE IF rme
         THEN [an |-> [updateTerminalsAndLL1(an, n, TOK_NULL, r)
                          EXCEPT ![n].matches_empty = TRUE],
               visited |-> visited, status |-> "OK"]
         ELSE [an |-> an, visited |-> visited, status |-> "OK"]
    ELSE
    LET comp == RuleOf(G, n, r).comps[i + 1]
        other == getAsNonTerminal(comp)
    IN IF comp.isTerminal
       THEN LET rme1 == rme /\ comp.optional
                t == getAsTerminal(comp)
                lone1 == lone \/ (t = TOK_NULL /\ comp.pred # "none")
            IN initTerminalsAndLL1Rule(G,
                   IF t = TOK_NULL THEN an
                   ELSE updateTerminalsAndLL1(an, n, t, r),
                   visited, n, r,
                   IF ~rme1 THEN RuleLen(G, n, r) ELSE i + 1,
                   rme1, lone1)
       ELSE LET rme1 == rme /\ (comp.optional \/ an[other].matches_empty)
            IN IF other = n
               THEN [an |-> [an EXCEPT ![n].is_ll1 = FALSE],
                     visited |-> visited, status |-> "IS_LR"]
               ELSE
               Let(IF ~an[other].got_initial_terminals
                   THEN initTerminalsAndLL1(G, an, visited, other)
                   ELSE [an |-> an, visited |-> visited, status |-> "OK"],
                   LAMBDA sub :
               IF TerminalsEmpty(sub.an[other].initial_terminals)
               THEN \* subprod_indeterminate
                    [an |-> [sub.an EXCEPT ![n].is_ll1 = FALSE,
                                ![n].initial_terminals = NoTerminals],
                     visited |-> sub.visited,
                     status |-> "INDETERMINATE"]
               ELSE initTerminalsAndLL1Rule(G,
                        UpdateAll(sub.an, n,
                                  KeysOf(sub.an[other].initial_terminals), r),
                        sub.visited, n, r,
                        IF ~rme1 THEN RuleLen(G, n, r) ELSE i + 1,
                        rme1, lone))

\* append lr_rules to the rule list of every key of the first-set
AppendLR(ts, lr) == [k \in Kinds |-> IF ts[k] = << >> THEN << >>
                                      ELSE ts[k] \o lr]

\* the rule loop of NonTerminal::initTerminalsAndLL1(visited), from rule r
InitRulesFrom(G, an, visited, n, r, lr, status) ==
    IF r >= Len(G[n].rules)
    THEN [an |-> [an EXCEPT ![n].initial_terminals = AppendLR(@, lr),
                            ![n].got_initial_terminals = TRUE],
          visited |-> visited, status |-> status]
    ELSE IF ~RuleOf(G, n, r).enabled
    THEN InitRulesFrom(G, an, visited, n, r + 1, lr, status)
    ELSE Let(initTerminalsAndLL1Rule(G, an, visited, n, r, 0, TRUE, FALSE),
             LAMBDA res :
         IF res.status = "IS_LR"
         THEN InitRulesFrom(G, res.an, res.visited, n, r + 1,
                            Append(lr, r), res.status)
         ELSE IF res.status # "OK"
         THEN \* lr_rules.clear(); break
              InitRulesFrom(G, res.an, res.visited, n, Len(G[n].rules),
                            << >>, res.status)
         ELSE InitRulesFrom(G, res.an, res.visited, n, r + 1, lr,
                            res.status))

\* NonTerminal::initTerminalsAndLL1(visited)
initTerminalsAndLL1(G, an, visited, n) ==
    IF n \in visited
    THEN [an |-> an, visited |-> visited, status |-> "OK"]
    ELSE InitRulesFrom(G,
            [an EXCEPT ![n].is_ll1 = TRUE, ![n].matches_empty = FALSE],
            visited \cup {n}, n, 0, << >>, "OK")

\* NonTerminal::initialTerminals / firstSet: the analysis state after the
\* lazy initialisation of n
initialTerminals(G, an, n) ==
    IF an[n].got_initial_terminals THEN an
    ELSE initTerminalsAndLL1(G, an, {}, n).an

\* NonTerminal::firstSet
firstSet(G, an, n) == initialTerminals(G, an, n)[n].initial_terminals
\* NonTerminal::matchesEmpty
matchesEmpty(G, an, n) == initialTerminals(G, an, n)[n].matches_empty
\* NonTerminal::isLL1
isLL1(G, an, n) == initialTerminals(G, an, n)[n].is_ll1

\* ------------------------------------------------------------------------
\* State

VARIABLES
    grammar,        \* the grammar handed to the parser (fixed during a parse)
    input,          \* the token kinds the lexer will deliver before TOK_EOF
    ptr_order,      \* the pairs (x, y) of SPPF nodes that P has compared or
                    \* whose order follows from that, x at the lower address
    pc,             \* "idle" | "loop" | "done": position inside Parser::parse
    analysis,       \* memoized analysis of every nonterminal
    ntokens,        \* Parser::tokens_ (number of tokens it holds)
    detached,       \* number of tokens that have left the front of tokens_:
                    \* tokens_ holds the tokens detached + 1 ..
                    \* detached + ntokens of the input
    taken_link,     \* the link to the next token that the last token of the
                    \* node returned by Parser::parse keeps (0 = nullptr)
    gss_,           \* GLL::gss_: GSS node -> list of outgoing edges
    sppf,           \* every SPPF node allocated and kept, by allocation number
    sppf_nodes_,    \* GLL::sppf_nodes_: the canonicalization set
    matched_,       \* GLL::matched_
    popped_,        \* GLL::popped_ (P)
    in_progress_,   \* GLL::in_progress_ (R), last element = top of stack
    visited_,       \* GLL::visited_ (U)
    recovery_pos_,  \* GLL::recovery_pos_
    poss_errors_,   \* GLL::poss_errors_, first element = front
    result,         \* value returned by Parser::parse (0 = nullptr)
    lexer,          \* behaviour of the lexer attached to the parser
    lexcalls,       \* number of calls of Lexer::lex made so far
    error_limit_,   \* Parser::error_limit_
    diagnostics_,   \* Parser::diagnostics_: (id, offset) pairs emitted
    counts,         \* the counters of DiagnosticCounter
    delivered,      \* diagnostics delivered to the parser's handlers
    thrown,         \* an exception left the parse: the fatal diagnostic
                    \* thrown by Parser::emit (or the std::logic_error of
                    \* SPPFNode::addChild)
    emits,          \* history: calls of Parser::emit and their outcome
    failed,         \* history: mismatches handed to endRule, in order
    reported,       \* history: mismatches handed to GLL::report
    lexed,          \* history: calls of Lexer::lex and their outcome
    pushed,         \* history: tuples pushed onto R, in order
    offered,        \* history: descriptors handed to add()
    toplevel,       \* history: nodes popped with a null return address
    bnt,            \* history: calls of beginNonTerminal and their outcome
    replayed,       \* history: (v, z, new edge) replayed by create
    made,           \* history: calls of getNodeP and the node returned
    dispatched,     \* history: nonterminal components handled by GLL::parse
    linked,         \* history: calls of SPPFNode::addChild, in order
    added,          \* number of NonTerminal::operator+= calls made so far
    queried,        \* nonterminal of the latest analysis query (0: none
                    \* since the grammar last changed)
    memo_rules,     \* history: per nonterminal, the rules of the grammar
                    \* when its memoized analysis was computed
    token,          \* a Token: tag of next_, spelling_, bytes_
    token2,         \* a second Token, copied from and to the first
    stored,         \* history: the spelling token was last given
    stored2,        \* history: the spelling token2 was last given
    handed,         \* the spelling handed to the latest setSpelling call
    rejected,       \* the latest setSpelling call threw invalid_argument
    walker,         \* a raw SPPF walker: start_ and trail_ (front first)
    walked,         \* history: the latest walker call, the walker before it
                    \* and the value returned
    asked           \* history: the latest call of Parser::nextToken by the
                    \* application: its argument and the token returned

\* the variables of the parser and of the grammar analysis
pvars == << grammar, input, ptr_order, pc, analysis, ntokens, detached,
                    taken_link, gss_, sppf,
            sppf_nodes_, matched_, popped_, in_progress_, visited_,
            recovery_pos_, poss_errors_, result, lexer, lexcalls,
            error_limit_, diagnostics_, counts, delivered, thrown, emits,
            failed, reported, lexed, pushed, offered, toplevel, bnt,
            replayed, made, dispatched, linked, added, queried, memo_rules >>

\* the variables of the Token operations
tvars == << token, token2, stored, stored2, handed, rejected >>

\* the variables of the SPPF walker
wvars == << walker, walked >>

vars == << pvars, tvars, wvars, asked >>

\* the variables that only grammar queries and changes write
avars == << added, queried, memo_rules >>

\* SPPFNode::Kind
NONTERMINAL == 0
TERMINAL == 1
PACKED == 2
INTERMEDIATE == 3

\* Mismatch::Kind
NONE == 0
NO_RULE == 1
TERMINAL_MISMATCH == 2
PREDICATE_FAILED == 3
POST_ACTION_FAILED == 4

\* unsigned short arithmetic of Descriptor::depth_
USHORT == 65536

\* Diagnostic::Category
INFO == 0
WARNING == 1
ERROR == 2
FATAL_ERROR == 3

\* Parser::DEFAULT_ERROR_LIMIT
DEFAULT_ERROR_LIMIT == 20

\* diagnostic IDs: the format strings of the parser and of the lexer
ID_EXPECTED == "expected %s"
ID_NO_TOKENS == "lexer not returning any tokens"
ID_ERROR_LIMIT == "error limit (%u) reached, aborting"

\* ------------------------------------------------------------------------
\* Lexers (include/wrparse/Lexer.h): what lex() does on each call, a list of
\* diagnostics it reports to the parser and whether it leaves the token as
\* TOK_NULL; after the script it delivers tokens or TOK_NULL for ever

LexEntry(diags, null) == [diags |-> diags, null |-> null]
LD(category, id) == [category |-> category, id |-> id]

\* a lexer that never complains
LX_Clean == [script |-> << >>, tail |-> "tokens"]
\* a lexer that returns nothing but TOK_NULL
LX_Mute == [script |-> << >>, tail |-> "nulls"]
\* one token, then nothing but TOK_NULL
LX_Stall == [script |-> << LexEntry(<< >>, FALSE) >>, tail |-> "nulls"]
\* a warning with the first token
LX_Warn == [script |-> << LexEntry(<< LD(WARNING, "lexer: w1") >>, FALSE) >>,
            tail |-> "tokens"]
\* the same error reported again for the second token
LX_Dup == [script |-> << LexEntry(<< >>, FALSE),
                         LexEntry(<< LD(ERROR, "lexer: e1") >>, TRUE),
                         LexEntry(<< LD(ERROR, "lexer: e1") >>, TRUE),
                         LexEntry(<< LD(ERROR, "lexer: e1"),
                                     LD(ERROR, "lexer: e2") >>, FALSE) >>,
           tail |-> "tokens"]
\* three different errors, each with TOK_NULL, before the first token
LX_Errors == [script |-> << LexEntry(<< LD(ERROR, "lexer: e1") >>, TRUE),
                            LexEntry(<< LD(ERROR, "lexer: e2") >>, TRUE),
                            LexEntry(<< LD(ERROR, "lexer: e3") >>, TRUE) >>,
              tail |-> "tokens"]
\* a fatal error of the lexer with the second token
LX_Fatal == [script |-> << LexEntry(<< >>, FALSE),
                           LexEntry(<< LD(FATAL_ERROR, "lexer: f1") >>,
                                    FALSE) >>,
             tail |-> "tokens"]
\* errors reported with the second and the third token
LX_ErrTok == [script |-> << LexEntry(<< >>, FALSE),
                            LexEntry(<< LD(ERROR, "lexer: e1") >>, FALSE),
                            LexEntry(<< LD(ERROR, "lexer: e2") >>, FALSE) >>,
              tail |-> "tokens"]

FaultyLexers == {LX_Mute, LX_Stall, LX_Warn, LX_Dup, LX_Errors, LX_Fatal,
                 LX_ErrTok}

\* largest error limit set with Parser::setErrorLimit that is explored
MaxErrorLimit == 2
ErrorLimits == 1..MaxErrorLimit

\* the grammars parsed with a faulty lexer
DiagGrammars == {G_LeftRec, G_Tie, G_Pred}

\* the parses explored: every grammar and input with the clean lexer, some
\* grammars with every lexer
Scenarios ==
    {[grammar |-> Grammars[i], input |-> w, lexer |-> LX_Clean] :
        i \in 1..Len(Grammars), w \in Inputs}
    \cup {[grammar |-> g, input |-> w, lexer |-> l] :
            g \in DiagGrammars, w \in Inputs, l \in FaultyLexers}

\* kind of the token at a position: the lexer delivers the input and then
\* TOK_EOF for ever
KindAt(p) == IF p <= Len(input) THEN input[p] ELSE TOK_EOF
\* variant of Token::is that never recognises the kind
is_never(p, k) == FALSE

\* Token::is
is(p, k) == KindAt(p) = k

\* Token::offset: tokens have positive length, so offsets grow with position
Offset(p) == p

\* label of a nonterminal symbol node / of a terminal symbol node
NTLabel(n) == [nt |-> n, rule |-> -1, idx |-> -1]

\* ------------------------------------------------------------------------
\* The mutable state of one parse, threaded through the operations below

State ==
    [an |-> analysis, ntokens |-> ntokens, detached |-> detached,
     taken_link |-> taken_link,
     gss |-> gss_, sppf |-> sppf,
     sppf_nodes |-> sppf_nodes_, matched |-> matched_, popped |-> popped_,
     R |-> in_progress_, U |-> visited_, recovery_pos |-> recovery_pos_,
     poss_errors |-> poss_errors_, lexcalls |-> lexcalls,
     diagnostics |-> diagnostics_, counts |-> counts,
     delivered |-> delivered, thrown |-> thrown, emits |-> emits,
     failed |-> failed, reported |-> reported, lexed |-> lexed,
     pushed |-> pushed, offered |-> offered,
     toplevel |-> toplevel, bnt |-> bnt, replayed |-> replayed,
     made |-> made,
     dispatched |-> dispatched,
     linked |-> linked,
     ptr_order |-> ptr_order,
     \* the node Parser::parse returned, owner of its tokens
     result |-> result,
     \* the places the allocator gave to the nodes that are compared next
     oracle |-> << >>,
     wanted |-> 0]

\* Diagnostic: category, id (the address of the format string) and offset;
\* expected is the set of token kinds named by the text of "expected %s"
Diagnostic(category, id, offset, expected) ==
    [category |-> category, id |-> id, offset |-> offset,
     expected |-> expected]

\* DiagnosticCounter::errorCount
errorCount(st) == st.counts.nonfatal_error + st.counts.fatal_error

\* DiagnosticCounter::onDiagnostic
countDiagnostic(c, d) ==
    IF d.category = INFO THEN [c EXCEPT !.info = @ + 1]
    ELSE IF d.category = WARNING THEN [c EXCEPT !.warning = @ + 1]
    ELSE IF d.category = ERROR THEN [c EXCEPT !.nonfatal_error = @ + 1]
    ELSE [c EXCEPT !.fatal_error = @ + 1]

\* variant of Parser::emit without the set of emitted diagnostics
emit_nodedup(st, d) ==
    [st EXCEPT !.diagnostics = @ \cup {<< d.id, d.offset >>},
               !.delivered = Append(@, d),
               !.counts = countDiagnostic(@, d),
               !.thrown = d.category >= FATAL_ERROR,
               !.emits = Append(@, [d |-> d, suppressed |-> FALSE])]

\* Parser::emit(const Diagnostic &); thrown stands for the exception that
\* unwinds to Parser::parse
emit(st, d) ==
    IF << d.id, d.offset >> \notin st.diagnostics
    THEN [st EXCEPT !.diagnostics = @ \cup {<< d.id, d.offset >>},
                    !.delivered = Append(@, d),
                    !.counts = countDiagnostic(@, d),
                    !.thrown = d.category >= FATAL_ERROR,
                    !.emits = Append(@, [d |-> d, suppressed |-> FALSE])]
    ELSE [st EXCEPT !.emits = Append(@, [d |-> d, suppressed |-> TRUE])]

\* variant of Parser::onDiagnostic after which the parse goes on whatever
\* the category
onDiagnostic_continue(st, d) ==
    Let(emit(st, d), LAMBDA s1 :
    IF d.category >= ERROR /\ errorCount(s1) = error_limit_
    THEN [emit(s1, Diagnostic(FATAL_ERROR, ID_ERROR_LIMIT, d.offset, {}))
            EXCEPT !.thrown = FALSE]
    ELSE [s1 EXCEPT !.thrown = FALSE])

\* Parser::onDiagnostic: a diagnostic reported by the lexer
onDiagnostic(st, d) ==
    Let(emit(st, d), LAMBDA s1 :
    IF s1.thrown THEN s1
    ELSE IF d.category >= ERROR /\ errorCount(s1) = error_limit_
    THEN emit(s1, Diagnostic(FATAL_ERROR, ID_ERROR_LIMIT, d.offset, {}))
    ELSE s1)

\* the lexer reports the diagnostics ds, in order, for the token at next
RECURSIVE LexerReports(_, _, _)
LexerReports(st, ds, next) ==
    IF ds = << >> \/ st.thrown THEN st
    ELSE Let(onDiagnostic(st, Diagnostic(Head(ds).category, Head(ds).id,
                                         Offset(next), {})),
             LAMBDA s1 : LexerReports(s1, Tail(ds), next))

\* what the lexer does on its k-th call
LexCall(k) ==
    IF k <= Len(lexer.script) THEN lexer.script[k]
    ELSE [diags |-> << >>, null |-> lexer.tail = "nulls"]

\* Lexer::lex(*next): null tells whether the token is left as TOK_NULL
lex(st, next) ==
    Let(LexerReports([st EXCEPT !.lexcalls = @ + 1],
                     LexCall(st.lexcalls + 1).diags, next),
        LAMBDA s1 :
    [st |-> [s1 EXCEPT !.lexed = Append(@,
                [next |-> next, null |-> LexCall(st.lexcalls + 1).null,
                 before |-> errorCount(st), after |-> errorCount(s1)])],
     null |-> LexCall(st.lexcalls + 1).null])

\* variant of the loop of Parser::nextToken that gives up one call later
RECURSIVE LexLoop_late(_, _, _, _)
LexLoop_late(st, next, strike, orig_error_count) ==
    Let(lex(st, next), LAMBDA r :
    IF r.st.thrown \/ ~r.null THEN r.st
    ELSE IF errorCount(r.st) = orig_error_count
    THEN Let(IF strike + 1 = 4
             THEN emit(r.st, Diagnostic(FATAL_ERROR, ID_NO_TOKENS,
                                        Offset(next), {}))
             ELSE r.st,
             LAMBDA s1 :
         IF s1.thrown THEN s1
         ELSE LexLoop_late(s1, next, strike + 1, orig_error_count))
    ELSE LexLoop_late(r.st, next, 0, errorCount(r.st)))

\* the loop of Parser::nextToken that calls the lexer until it returns a
\* token other than TOK_NULL
RECURSIVE LexLoop(_, _, _, _)
LexLoop(st, next, strike, orig_error_count) ==
    Let(lex(st, next), LAMBDA r :
    IF r.st.thrown \/ ~r.null THEN r.st
    ELSE IF errorCount(r.st) = orig_error_count
    THEN Let(IF strike + 1 = 3
             THEN emit(r.st, Diagnostic(FATAL_ERROR, ID_NO_TOKENS,
                                        Offset(next), {}))
             ELSE r.st,
             LAMBDA s1 :
         IF s1.thrown THEN s1
         ELSE LexLoop(s1, next, strike + 1, orig_error_count))
    ELSE LexLoop(r.st, next, 0, errorCount(r.st)))

\* Parser::nextToken; pos = 0 stands for nullptr, and the token at the end of
\* tokens_ is the token detached + ntokens of the input.  pos is a token of
\* tokens_ or of the node that Parser::parse returned; the last token of
\* that node has the link taken_link.
nextToken(st, pos) ==
    IF st.ntokens = 0 \/ pos = st.detached + st.ntokens
    THEN [st |-> LexLoop([st EXCEPT !.ntokens = st.ntokens + 1],
                         st.detached + st.ntokens + 1, 0, errorCount(st)),
          tok |-> st.detached + st.ntokens + 1]
    ELSE IF pos # 0
    THEN IF st.result # 0 /\ st.sppf[st.result].last = pos
         THEN [st |-> st, tok |-> st.taken_link]
         ELSE [st |-> st, tok |-> pos + 1]
    ELSE [st |-> st, tok |-> st.detached + 1]

\* ------------------------------------------------------------------------
\* SPPF nodes (src/src/SPPF.cxx, include/wrparse/SPPF.h)

\* SPPFNode::empty
empty(st, x) == st.sppf[x].first = 0
lastToken(st, x) == st.sppf[x].last
firstToken(st, x) == st.sppf[x].first
isPacked(st, x) == st.sppf[x].kind = PACKED
isNonTerminal(st, x) == st.sppf[x].kind = NONTERMINAL
isTerminal(st, x) == st.sppf[x].kind = TERMINAL
isSymbol(st, x) == isNonTerminal(st, x) \/ isTerminal(st, x)
\* SPPFNode::firstChild / lastChild (0 = nullptr)
firstChild(st, x) ==
    IF st.sppf[x].children = << >> THEN 0 ELSE Head(st.sppf[x].children)
lastChild(st, x) ==
    IF st.sppf[x].children = << >> THEN 0
    ELSE st.sppf[x].children[Len(st.sppf[x].children)]

\* variant of operator== that also compares the child lists
NodeEq_children(a, b) ==
    a.kind = b.kind /\ a.label = b.label /\ a.first = b.first
                    /\ a.last = b.last /\ a.children = b.children

\* SPPFNode::operator==
NodeEq(a, b) ==
    a.kind = b.kind /\ a.label = b.label /\ a.first = b.first
                    /\ a.last = b.last

\* the SPPFNode constructors
SymbolNodeNT(n, first, last) ==
    [kind |-> NONTERMINAL, label |-> NTLabel(n), first |-> first,
     last |-> last, children |-> << >>]
SymbolNodeT(tok) ==
    [kind |-> TERMINAL, label |-> NullAddr, first |-> tok, last |-> tok,
     children |-> << >>]
PackedNode(slot, pivot, isEmpty) ==
    [kind |-> PACKED, label |-> slot,
     first |-> IF isEmpty THEN 0 ELSE pivot, last |-> pivot,
     children |-> << >>]
\* SPPFNode::emptyNode
emptyNode(next) == [SymbolNodeT(next) EXCEPT !.first = 0]

\* history record of one call of addChild
LogChild(st, x, other) ==
    [st EXCEPT !.linked = Append(@, [node |-> x, child |-> other])]

\* variant of addChild that appends every child
addChild_append(st, x, other) ==
    IF other = x
    THEN [LogChild(st, x, other) EXCEPT !.thrown = TRUE]
    ELSE [LogChild(st, x, other) EXCEPT !.sppf[x].children = Append(@, other)]

\* SPPFNode::addChild on the child list of node x; a node offered to itself
\* is refused with std::logic_error and the child list stays as it is
addChild(st, x, other) ==
    IF other = x
    THEN [LogChild(st, x, other) EXCEPT !.thrown = TRUE]
    ELSE IF isPacked(st, other) /\ st.sppf[x].children # << >>
    THEN [LogChild(st, x, other) EXCEPT
             !.sppf[x].children = << other >> \o @]
    ELSE [LogChild(st, x, other) EXCEPT
             !.sppf[x].children = Append(@, other)]

\* GLL::getNode: the node of the canonicalization set equal to key, or key
\* itself, newly inserted
getNode(st, key) ==
    LET found == {x \in st.sppf_nodes : NodeEq(st.sppf[x], key)}
    IN IF found # {}
       THEN [st |-> st, node |-> CHOOSE x \in found : TRUE,
             inserted |-> FALSE]
       ELSE LET id == Len(st.sppf) + 1
            IN [st |-> [st EXCEPT !.sppf = Append(@, key),
                                  !.sppf_nodes = @ \cup {id}],
                node |-> id, inserted |-> TRUE]

\* GLL::getPackedNode
getPackedNode(st, parent, slot, pivot, isEmpty) ==
    LET cs == st.sppf[parent].children
        hit(i) == /\ isPacked(st, cs[i])
                  /\ st.sppf[cs[i]].label = slot
                  /\ \/ isEmpty /\ empty(st, cs[i])
                                /\ lastToken(st, cs[i]) = pivot
                     \/ ~isEmpty /\ ~empty(st, cs[i])
                                 /\ firstToken(st, cs[i]) = pivot
        hits == {i \in 1..Len(cs) : hit(i)}
    IN IF hits # {}
       THEN [st |-> st, node |-> cs[CHOOSE i \in hits : \A j \in hits : i <= j],
             inserted |-> FALSE]
       ELSE [st |-> [st EXCEPT !.sppf = Append(@, PackedNode(slot, pivot,
                                                             isEmpty))],
             node |-> Len(st.sppf) + 1, inserted |-> TRUE]

\* GLL::getNodeT
getNodeT(st, tok) == getNode(st, SymbolNodeT(tok))

\* GLL::getEmptyNodeAt
getEmptyNodeAt(st, pos) == getNode(st, emptyNode(pos))

\* the loop of getNodeP that adopts the children of right
RECURSIVE AdoptChildren(_, _, _)
AdoptChildren(st, ret, cs) ==
    IF cs = << >> \/ st.thrown THEN st
    ELSE Let(addChild(st, ret, Head(cs)),
             LAMBDA s1 : AdoptChildren(s1, ret, Tail(cs)))

\* variant of the end of getNodeP that gives right to ret, not to the packed
\* node
AttachPacked_mixed(st, ret, packed, left, right) ==
    Let(IF left # 0 THEN addChild(st, packed, left) ELSE st, LAMBDA s1 :
    IF s1.thrown THEN s1 ELSE
    Let(addChild(s1, ret, right), LAMBDA s2 :
    IF s2.thrown THEN s2 ELSE addChild(s2, ret, packed)))

\* the end of GLL::getNodeP: a newly created packed node gets left (if any)
\* and right as children and becomes a child of ret
AttachPacked(st, ret, packed, left, right) ==
    Let(IF left # 0 THEN addChild(st, packed, left) ELSE st, LAMBDA s1 :
    IF s1.thrown THEN s1 ELSE
    Let(addChild(s1, packed, right), LAMBDA s2 :
    IF s2.thrown THEN s2 ELSE addChild(s2, ret, packed)))

\* history record of one call of getNodeP: r is the result of getNode
LogNodeP(r, slot, left, right) ==
    [r EXCEPT !.st.made = @ \cup {[slot |-> slot, left |-> left,
                                   right |-> right, node |-> r.node]}]

\* variant of the constructor that makes a nonterminal symbol node
IntermediateNode_symbol(slot, first, last) ==
    [kind |-> NONTERMINAL, label |-> NTLabel(slot.nt), first |-> first,
     last |-> last, children |-> << >>]

\* SPPFNode(const Component &slot, first, last)
IntermediateNode(slot, first, last) ==
    [kind |-> INTERMEDIATE, label |-> slot, first |-> first, last |-> last,
     children |-> << >>]

\* variant of the left extent that falls back to right's last token
leftExtent_last(st, left, right) ==
    IF left # 0 /\ ~empty(st, left) THEN firstToken(st, left)
    ELSE IF ~empty(st, right) THEN firstToken(st, right)
    ELSE lastToken(st, right)

\* the left extent computed by getNodeP (0 = nullptr: completely empty)
leftExtent(st, left, right) ==
    IF left # 0
    THEN IF ~empty(st, left) THEN firstToken(st, left)
         ELSE IF ~empty(st, right) THEN lastToken(st, left)
         ELSE 0
    ELSE IF ~empty(st, right) THEN firstToken(st, right) ELSE 0

\* GLL::getNodeP (left = 0 when there is no left partial)
getNodeP(st, slot, left, right) ==
    LET on_last_slot == AtEnd(grammar, NextAddr(slot))
        left_extent == leftExtent(st, left, right)
        pivot == IF empty(st, right) THEN lastToken(st, right)
                 ELSE firstToken(st, right)
        right_extent ==
            IF empty(st, right)
            THEN IF left # 0 THEN lastToken(st, left)
                 ELSE lastToken(st, right)
            ELSE lastToken(st, right)
    IN Let(LogNodeP(
             IF on_last_slot
             THEN getNode(st, SymbolNodeNT(slot.nt, left_extent, right_extent))
             ELSE getNode(st, IntermediateNode(slot, left_extent,
                                               right_extent)),
             slot, left, right),
           LAMBDA ret :
       IF /\ ~on_last_slot
          /\ left = 0
          /\ isNonTerminal(ret.st, right)
          /\ ret.st.sppf[right].label = NTLabel(slot.nt)
          /\ isRecursive(grammar, slot)
          /\ ~grammar[slot.nt].keepRecursion
       THEN [st |-> AdoptChildren(ret.st, ret.node,
                                  ret.st.sppf[right].children),
             node |-> ret.node]
       ELSE Let(getPackedNode(ret.st, ret.node, slot, pivot,
                              empty(ret.st, right)),
                LAMBDA packed :
            IF packed.inserted
            THEN [st |-> AttachPacked(packed.st, ret.node, packed.node,
                                      left, right),
                  node |-> ret.node]
            ELSE [st |-> packed.st, node |-> ret.node]))

\* variant of hideDelegateOrTransparent that substitutes the packed child
\* itself instead of that child's symbol
hideDelegateOrTransparent_packed(st, parsed_node) ==
    IF parsed_node = 0 THEN 0
    ELSE LET child == firstChild(st, parsed_node)
         IN IF /\ child # 0
               /\ isPacked(st, child)
               /\ child = lastChild(st, parsed_node)
               /\ mustHide(grammar, st.sppf[child].label.nt,
                           st.sppf[child].label.rule)
               /\ firstChild(st, child) = lastChild(st, child)
               /\ isSymbol(st, firstChild(st, child))
            THEN child
            ELSE parsed_node

\* GLL::hideDelegateOrTransparent (0 = nullptr)
hideDelegateOrTransparent(st, parsed_node) ==
    IF parsed_node = 0 THEN 0
    ELSE LET child == firstChild(st, parsed_node)
         IN IF /\ child # 0
               /\ isPacked(st, child)
               /\ child = lastChild(st, parsed_node)
               /\ mustHide(grammar, st.sppf[child].label.nt,
                           st.sppf[child].label.rule)
               /\ firstChild(st, child) = lastChild(st, child)
               /\ isSymbol(st, firstChild(st, child))
            THEN firstChild(st, child)
            ELSE parsed_node


\* ------------------------------------------------------------------------
\* The GLL engine (src/src/Parser.cxx)

Descriptor(address, gss_head, input_pos, sppf_node, depth, advance) ==
    [address |-> address, gss_head |-> gss_head, input_pos |-> input_pos,
     sppf_node |-> sppf_node, depth |-> depth, advance |-> advance]

\* GLL::VisitedItem of a descriptor
VisitedItem(input_pos, address, gss_head, sppf_node) ==
    [input_pos |-> input_pos, address |-> address, gss_head |-> gss_head,
     sppf_node |-> sppf_node]

\* GLL::visited
visited(st, address, gss_head, input_pos, sppf_node) ==
    VisitedItem(input_pos, address, gss_head, sppf_node) \in st.U

\* variant of add that pushes the descriptor whether or not it was visited
add_always(st, d) ==
    LET item == VisitedItem(d.input_pos, d.address, d.gss_head, d.sppf_node)
    IN [st EXCEPT !.offered = @ \cup {d},
                  !.U = @ \cup {item},
                  !.R = Append(@, d),
                  !.pushed = Append(@, item)]

\* GLL::add
add(st, d) ==
    LET item == VisitedItem(d.input_pos, d.address, d.gss_head, d.sppf_node)
        st1 == [st EXCEPT !.offered = @ \cup {d}]
    IN IF item \notin st.U
       THEN [st1 EXCEPT !.U = @ \cup {item},
                        !.R = Append(@, d),
                        !.pushed = Append(@, item)]
       ELSE st1

\* variant of the top-level branch that also replaces matched_ by a parse
\* of equal extent
updateMatched_ge(st, parsed_node) ==
    IF st.matched = 0
       \/ Offset(lastToken(st, parsed_node))
             >= Offset(lastToken(st, st.matched))
    THEN [st EXCEPT !.matched = parsed_node]
    ELSE st

\* the top-level branch of GLL::pop: matched_ is replaced by a parse that
\* extends further
updateMatched(st, parsed_node) ==
    IF st.matched = 0
       \/ Offset(lastToken(st, parsed_node))
             > Offset(lastToken(st, st.matched))
    THEN [st EXCEPT !.matched = parsed_node]
    ELSE st

\* the edge loop of GLL::pop, from edge i of gss_head on
RECURSIVE PopEdges(_, _, _, _, _)
PopEdges(st, gss_head, parsed_node, depth, i) ==
    IF i > Len(st.gss[gss_head]) THEN st
    ELSE
    LET gss_edge == st.gss[gss_head][i]
        return_address == gss_head.ra
        lasttok == lastToken(st, parsed_node)
        adv == ~empty(st, parsed_node)
        dep == (depth - 1) % USHORT
    IN IF return_address # NullAddr
       THEN Let(getNodeP(st, return_address, gss_edge.sppf_node,
                         hideDelegateOrTransparent(st, parsed_node)),
                LAMBDA y :
            IF y.st.thrown THEN y.st ELSE
            Let(add(y.st, Descriptor(NextAddr(return_address),
                          gss_edge.child, lasttok, y.node, dep, adv)),
                LAMBDA s1 :
            PopEdges(s1, gss_head, parsed_node, depth, i + 1)))
       ELSE \* top-level match
            Let(add([updateMatched(st, parsed_node)
                        EXCEPT !.toplevel = Append(@, parsed_node)],
                    Descriptor(return_address, gss_edge.child,
                               lasttok, 0, dep, adv)),
                LAMBDA s1 :
            PopEdges(s1, gss_head, parsed_node, depth, i + 1))

\* GLL::pop
pop(st, gss_head, parsed_node, depth) ==
    PopEdges([st EXCEPT !.popped = @ \cup {[stack_head |-> gss_head,
                                            parsed_node |-> parsed_node]}],
             gss_head, parsed_node, depth, 1)

\* variant of GSS::Node::addChild that adds the edge in the other direction
gssAddChild_rev(st, v, child, sppf_node) ==
    IF \E i \in 1..Len(st.gss[child]) :
            st.gss[child][i].child = v
            /\ st.gss[child][i].sppf_node = sppf_node
    THEN [st |-> st, added |-> FALSE]
    ELSE [st |-> [st EXCEPT !.gss[child] = Append(@, [child |-> v,
                                                 sppf_node |-> sppf_node])],
          added |-> TRUE]

\* GSS::Node::addChild: the edge list of v after the call and whether an
\* edge was added
gssAddChild(st, v, child, sppf_node) ==
    IF \E i \in 1..Len(st.gss[v]) :
            st.gss[v][i].child = child /\ st.gss[v][i].sppf_node = sppf_node
    THEN [st |-> st, added |-> FALSE]
    ELSE [st |-> [st EXCEPT !.gss[v] = Append(@, [child |-> child,
                                                 sppf_node |-> sppf_node])],
          added |-> TRUE]

\* s with x put behind its first i elements
InsertAt(s, i, x) == SubSeq(s, 1, i) \o << x >> \o SubSeq(s, i + 1, Len(s))

\* the place that the allocator gave to a node: one of n places, the next
\* digit of the oracle; with no digit left the first place, and the number of
\* places is noted
Placed(st, n) ==
    IF n = 1 THEN [st |-> st, i |-> 0]
    ELSE IF st.oracle = << >>
    THEN [st |-> [st EXCEPT !.wanted = IF @ = 0 THEN n ELSE @], i |-> 0]
    ELSE [st |-> [st EXCEPT !.oracle = Tail(@)], i |-> Head(st.oracle) % n]

\* Popped::operator< on the parsed nodes zs of one stack head: the sequence
\* seq of those already put in order is extended by the others, each at a
\* place that agrees with every comparison made before
RECURSIVE Place(_, _, _)
Place(st, seq, zs) ==
    IF zs = {} THEN [st |-> st, seq |-> seq]
    ELSE LET z == CHOOSE x \in zs : \A y \in zs : x <= y
             lo == CHOOSE i \in 0..Len(seq) :
                      /\ \A j \in (i + 1)..Len(seq) :
                            << seq[j], z >> \notin st.ptr_order
                      /\ i = 0 \/ << seq[i], z >> \in st.ptr_order
             hi == CHOOSE i \in 0..Len(seq) :
                      /\ \A j \in 1..i : << z, seq[j] >> \notin st.ptr_order
                      /\ i = Len(seq) \/ << z, seq[i + 1] >> \in st.ptr_order
         IN Let(Placed(st, hi - lo + 1), LAMBDA p :
            Place(p.st, InsertAt(seq, lo + p.i, z), zs \ {z}))

\* the comparisons that follow from those of rel and the order seq
Compared(rel, seq) ==
    LET below(x) == {x} \cup {a \in {r[1] : r \in rel} : << a, x >> \in rel}
        above(y) == {y} \cup {b \in {r[2] : r \in rel} : << y, b >> \in rel}
    IN rel \cup UNION {IF i < j THEN below(seq[i]) \X above(seq[j]) ELSE {} :
                         i \in 1..Len(seq), j \in 1..Len(seq)}

\* the nodes z with (v, z) in P, in the order std::set<Popped> yields them:
\* by address of the parsed node
SortedBy(st, zs) ==
    IF zs = {} THEN [st |-> st, seq |-> << >>]
    ELSE IF Cardinality(zs) = 1
    THEN [st |-> st, seq |-> << CHOOSE x \in zs : TRUE >>]
    ELSE Let(Place(st, << >>, zs), LAMBDA o :
         [st |-> [o.st EXCEPT !.ptr_order = Compared(@, o.seq)],
          seq |-> o.seq])

\* variant of the replay loop that finds no popped node
Replay_none(st, return_address, gss_head, sppf_node, depth, zs) == st

\* the replay loop of GLL::create over the popped nodes zs
RECURSIVE Replay(_, _, _, _, _, _)
Replay(st, return_address, gss_head, sppf_node, depth, zs) ==
    IF zs = << >> THEN st
    ELSE Let(getNodeP(st, return_address, sppf_node,
                      hideDelegateOrTransparent(st, Head(zs))),
             LAMBDA y :
         IF y.st.thrown THEN y.st ELSE
         Let(add([y.st EXCEPT !.replayed = @ \cup
                     {[ra |-> return_address, z |-> Head(zs),
                       gss_head |-> gss_head, sppf_node |-> sppf_node]}],
                 Descriptor(NextAddr(return_address), gss_head,
                            lastToken(st, Head(zs)), y.node,
                            (depth - 1) % USHORT,
                            ~empty(st, Head(zs)))),
             LAMBDA s1 :
         Replay(s1, return_address, gss_head, sppf_node, depth, Tail(zs))))

\* GLL::create
create(st, return_address, gss_head, input_pos, sppf_node, depth) ==
    LET v == [ra |-> return_address, pos |-> input_pos]
        inserted == v \notin DOMAIN st.gss
    IN Let(gssAddChild(IF inserted
                       THEN [st EXCEPT !.gss =
                                [x \in DOMAIN st.gss \cup {v} |->
                                    IF x = v THEN << >> ELSE st.gss[x]]]
                       ELSE st,
                       v, gss_head, sppf_node),
           LAMBDA e :
       IF e.added /\ ~inserted
       THEN Let(SortedBy(e.st, {p.parsed_node : p \in
                                 {q \in e.st.popped : q.stack_head = v}}),
                LAMBDA o :
            [st |-> Replay(o.st, return_address, gss_head, sppf_node, depth,
                           o.seq),
             v |-> v])
       ELSE [st |-> e.st, v |-> v])

\* variant of endRule that keeps the earlier of two mismatches at one offset
endRule_first(st, d, mismatch_kind) ==
    LET kind == IF mismatch_kind = NONE /\ ~invokeActions(grammar[d.address.nt].post)
                THEN POST_ACTION_FAILED ELSE mismatch_kind
        log(s) == [s EXCEPT !.failed = Append(@, [d |-> d, kind |-> kind])]
    IN IF kind # NONE
       THEN IF st.recovery_pos = 0
               \/ Offset(d.input_pos) > Offset(st.recovery_pos)
            THEN [st |-> log([st EXCEPT !.recovery_pos = d.input_pos,
                                        !.poss_errors = << [d |-> d,
                                                 kind |-> kind] >> \o @]),
                  ok |-> FALSE]
            ELSE [st |-> log(st), ok |-> FALSE]
       ELSE [st |-> st, ok |-> TRUE]

\* GLL::endRule
endRule(st, d, mismatch_kind) ==
    LET kind == IF mismatch_kind = NONE /\ ~invokeActions(grammar[d.address.nt].post)
                THEN POST_ACTION_FAILED ELSE mismatch_kind
        log(s) == [s EXCEPT !.failed = Append(@, [d |-> d, kind |-> kind])]
    IN IF kind # NONE
       THEN IF st.recovery_pos = 0
               \/ Offset(d.input_pos) >= Offset(st.recovery_pos)
            THEN [st |-> log([st EXCEPT !.recovery_pos = d.input_pos,
                                        !.poss_errors = << [d |-> d,
                                                 kind |-> kind] >> \o @]),
                  ok |-> FALSE]
            ELSE [st |-> log(st), ok |-> FALSE]
       ELSE [st |-> st, ok |-> TRUE]

\* GLL::test and GLL::testFollow; both return the verdict and the analysis
\* state, which the calls of firstSet() and matchesEmpty() may initialise
RECURSIVE test(_, _, _, _)
RECURSIVE testFollow(_, _, _)
test(a, input_pos, nonterminal, trailing_terms) ==
    Let(initialTerminals(grammar, a, nonterminal), LAMBDA a1 :
    IF TerminalsEmpty(a1[nonterminal].initial_terminals)
       \/ a1[nonterminal].initial_terminals[KindAt(input_pos)] # << >>
    THEN [ok |-> TRUE, an |-> a1]
    ELSE IF a1[nonterminal].matches_empty
    THEN testFollow(a1, input_pos, trailing_terms)
    ELSE [ok |-> FALSE, an |-> a1])

\* variant of testFollow that rejects once the rest of the rule is used up
testFollow_strict(a, input_pos, trailing_terms) ==
    IF trailing_terms = NullAddr
    THEN [ok |-> TRUE, an |-> a]
    ELSE IF AtEnd(grammar, trailing_terms)
    THEN [ok |-> FALSE, an |-> a]
    ELSE LET comp == CompAt(grammar, trailing_terms)
         IN IF comp.isTerminal
            THEN IF getAsTerminal(comp) = KindAt(input_pos)
                 THEN [ok |-> TRUE, an |-> a]
                 ELSE IF ~comp.optional THEN [ok |-> FALSE, an |-> a]
                 ELSE testFollow(a, input_pos, NextAddr(trailing_terms))
            ELSE test(a, input_pos, getAsNonTerminal(comp),
                      NextAddr(trailing_terms))

\* GLL::testFollow
testFollow(a, input_pos, trailing_terms) ==
    IF trailing_terms = NullAddr \/ AtEnd(grammar, trailing_terms)
    THEN [ok |-> TRUE, an |-> a]
    ELSE LET comp == CompAt(grammar, trailing_terms)
         IN IF comp.isTerminal
            THEN IF getAsTerminal(comp) = KindAt(input_pos)
                 THEN [ok |-> TRUE, an |-> a]
                 ELSE IF ~comp.optional THEN [ok |-> FALSE, an |-> a]
                 ELSE testFollow(a, input_pos, NextAddr(trailing_terms))
            ELSE test(a, input_pos, getAsNonTerminal(comp),
                      NextAddr(trailing_terms))


RECURSIVE parse(_, _)
RECURSIVE ParseFrom(_, _)
RECURSIVE beginNonTerminal(_, _, _, _, _)
RECURSIVE BeginRules(_, _, _, _, _, _, _)
RECURSIVE beginRule(_, _, _, _, _, _, _)

\* variant of beginRule that reports success on the fast path only
beginRule_immediate(st, n, r, gss_head, input_pos, depth, immediate) ==
    IF ~invokeActions(grammar[n].pre)
    THEN [st |-> st, ok |-> FALSE]
    ELSE LET d == Descriptor(Addr(n, r, 0), gss_head, input_pos, 0, depth,
                             FALSE)
         IN IF immediate THEN [st |-> parse(st, d), ok |-> TRUE]
            ELSE [st |-> add(st, d), ok |-> FALSE]

\* variant of beginRule that asks the pre-parse actions on the descriptor
\* path only
beginRule_unguarded(st, n, r, gss_head, input_pos, depth, immediate) ==
    IF ~immediate /\ ~invokeActions(grammar[n].pre)
    THEN [st |-> st, ok |-> FALSE]
    ELSE LET d == Descriptor(Addr(n, r, 0), gss_head, input_pos, 0, depth,
                             FALSE)
         IN IF immediate THEN [st |-> parse(st, d), ok |-> TRUE]
            ELSE [st |-> add(st, d), ok |-> TRUE]

\* GLL::beginRule
beginRule(st, n, r, gss_head, input_pos, depth, immediate) ==
    IF ~invokeActions(grammar[n].pre)   \* invokePreParseActions
    THEN [st |-> st, ok |-> FALSE]
    ELSE LET d == Descriptor(Addr(n, r, 0), gss_head, input_pos, 0, depth,
                             FALSE)
         IN IF immediate THEN [st |-> parse(st, d), ok |-> TRUE]
            ELSE [st |-> add(st, d), ok |-> TRUE]

\* the loops of beginNonTerminal over a list of rule indices
BeginRules(st, n, rs, gss_head, input_pos, depth, count) ==
    IF rs = << >> THEN [st |-> st, count |-> count]
    ELSE Let(beginRule(st, n, Head(rs), gss_head, input_pos, depth, FALSE),
             LAMBDA b :
         BeginRules(b.st, n, Tail(rs), gss_head, input_pos, depth,
                    IF b.ok THEN count + 1 ELSE count))

\* history record of one call of beginNonTerminal
BntRecord(st0, st1, n, gss_head, input_pos, in_first, immediate, count, ok) ==
    [nt |-> n, gss_head |-> gss_head, input_pos |-> input_pos,
     in_first |-> in_first, immediate |-> immediate, count |-> count,
     grown |-> Len(st1.pushed) - Len(st0.pushed), ok |-> ok]

\* GLL::beginNonTerminal
beginNonTerminal(st, n, gss_head, input_pos, depth) ==
    Let(initialTerminals(grammar, st.an, n), LAMBDA a1 :
    LET terminals == a1[n].initial_terminals
        me == a1[n].matches_empty
        lst == a1[n].initial_terminals[KindAt(input_pos)]
        in_first == ~TerminalsEmpty(a1[n].initial_terminals)
                    /\ a1[n].initial_terminals[KindAt(input_pos)] # << >>
        log(s, immediate, count, ok) ==
            [st |-> [s EXCEPT !.bnt = @ \cup {BntRecord(st, s, n, gss_head,
                          input_pos, in_first, immediate, count, ok)}],
             ok |-> ok]
        fast == lst # << >> /\ ~me /\ Len(lst) = 1
    IN IF TerminalsEmpty(terminals)
       THEN Let(BeginRules([st EXCEPT !.an = a1], n,
                           [i \in 1..Len(grammar[n].rules) |-> i - 1],
                           gss_head, input_pos, depth, 0),
                LAMBDA b : log(b.st, FALSE, b.count, b.count > 0))
       ELSE
       Let(IF fast
           THEN beginRule([st EXCEPT !.an = a1], n, lst[1], gss_head,
                          input_pos, depth, TRUE)
           ELSE [st |-> [st EXCEPT !.an = a1], ok |-> FALSE],
           LAMBDA f :
       IF fast /\ f.ok
       THEN log(f.st, TRUE, 0, TRUE)
       ELSE
       Let(IF lst # << >> /\ ~fast
           THEN BeginRules(f.st, n, lst, gss_head, input_pos, depth, 0)
           ELSE [st |-> f.st, count |-> 0],
           LAMBDA b1 :
       Let(IF me
           THEN BeginRules(b1.st, n, terminals[TOK_NULL], gss_head,
                           input_pos, depth, b1.count)
           ELSE b1,
           LAMBDA b2 : log(b2.st, FALSE, b2.count, b2.count > 0)))))

\* variant of predicateFails in which no predicate ends the rule
predicateFails_never(step) == FALSE

\* GLL::parse: the component's predicate returned false and the component
\* is not optional
predicateFails(step) == step.pred = "fail" /\ ~step.optional

\* variant of afterDispatch that proceeds in place only when the nonterminal
\* was not begun
afterDispatch_unbegun(ok, skip_optional) ==
    IF ~(ok \/ skip_optional) THEN "fail"
    ELSE IF ok THEN "return"
    ELSE "continue"

\* what GLL::parse does once a nonterminal component has been handled:
\* "fail" (endRule with NO_RULE), "return" to the main loop, or "continue"
\* in place with an empty node
afterDispatch(ok, skip_optional) ==
    IF ~(ok \/ skip_optional) THEN "fail"
    ELSE IF ~skip_optional THEN "return"
    ELSE "continue"

\* history record of one nonterminal component handled by GLL::parse
DispatchRecord(d, guard, begun, skip_optional) ==
    [d |-> d, guard |-> guard, begun |-> begun,
     skip_optional |-> skip_optional,
     outcome |-> afterDispatch(begun, skip_optional)]

\* GLL::parse: the component loop from d.address on, then completion
ParseFrom(st, d) ==
    IF AtEnd(grammar, d.address)
    THEN \* complete
         Let(endRule(st, d, NONE), LAMBDA er :
         IF er.ok THEN pop(er.st, d.gss_head, d.sppf_node, d.depth)
         ELSE er.st)
    ELSE
    Let(IF d.advance THEN nextToken(st, d.input_pos)
        ELSE [st |-> st, tok |-> d.input_pos],
        LAMBDA nx :
    Let([d EXCEPT !.input_pos = nx.tok, !.advance = FALSE], LAMBDA d1 :
    Let(nx.st, LAMBDA s1 :
    IF s1.thrown THEN s1   \* the exception leaves GLL::parse
    ELSE
    LET step == CompAt(grammar, d.address)
        pos == d1.input_pos
        terminal == getAsTerminal(CompAt(grammar, d.address))
        return_addr == NextAddr(d.address)
        nonterminal == getAsNonTerminal(CompAt(grammar, d.address))
    IN IF predicateFails(step)
       THEN endRule(s1, d1, PREDICATE_FAILED).st
       ELSE IF step.isTerminal
       THEN IF terminal = TOK_NULL \/ terminal = KindAt(pos)
            THEN Let(getNodeT(s1, pos), LAMBDA t :
                 Let(IF d1.address.idx = 0
                        /\ ~AtEnd(grammar, NextAddr(d1.address))
                     THEN [st |-> t.st, node |-> t.node]
                     ELSE getNodeP(t.st, d1.address, d1.sppf_node, t.node),
                     LAMBDA p :
                 IF p.st.thrown THEN p.st ELSE
                 ParseFrom(p.st, [d1 EXCEPT !.sppf_node = p.node,
                                            !.advance = TRUE,
                                            !.address = NextAddr(d1.address)])))
            ELSE IF ~step.optional
            THEN endRule(s1, d1, TERMINAL_MISMATCH).st
            ELSE Let(getEmptyNodeAt(s1, pos), LAMBDA e :
                 Let(getNodeP(e.st, d1.address, d1.sppf_node, e.node),
                     LAMBDA p :
                 IF p.st.thrown THEN p.st ELSE
                 ParseFrom(p.st, [d1 EXCEPT !.sppf_node = p.node,
                                            !.address = NextAddr(d1.address)])))
       ELSE \* nonterminal
       Let(IF step.optional
           THEN initialTerminals(grammar, s1.an, nonterminal)
           ELSE s1.an,
           LAMBDA a1 :
       Let(/\ step.optional
           /\ ~a1[nonterminal].matches_empty
           /\ ~visited(s1, return_addr, d1.gss_head, pos, d1.sppf_node),
           LAMBDA skip_optional :
       Let(test(a1, pos, nonterminal, return_addr), LAMBDA tst :
       Let(IF tst.ok
           THEN Let(create([s1 EXCEPT !.an = tst.an], d1.address,
                           d1.gss_head, pos, d1.sppf_node,
                           (d1.depth + 1) % USHORT),
                    LAMBDA c :
                beginNonTerminal(c.st, nonterminal, c.v, pos,
                                 (d1.depth + 1) % USHORT))
           ELSE [st |-> [s1 EXCEPT !.an = tst.an], ok |-> FALSE],
           LAMBDA b0 :
       Let([b0 EXCEPT !.st.dispatched =
               IF b0.st.thrown THEN @
               ELSE @ \cup {DispatchRecord(d1, tst.ok, b0.ok,
                                           skip_optional)}],
           LAMBDA b :
       IF b.st.thrown THEN b.st
       ELSE IF afterDispatch(b.ok, skip_optional) = "fail"
       THEN endRule(b.st, d1, NO_RULE).st
       ELSE IF afterDispatch(b.ok, skip_optional) = "return"
       THEN b.st   \* return directly to the main loop
       ELSE Let(getEmptyNodeAt(b.st, pos), LAMBDA e :
            Let(getNodeP(e.st, d1.address, d1.sppf_node, e.node),
                LAMBDA p :
            IF p.st.thrown THEN p.st ELSE
            ParseFrom(p.st, [d1 EXCEPT !.sppf_node = p.node,
                                       !.address = NextAddr(d1.address)])))
       ))))))))

\* GLL::parse
parse(st, d) == IF d.address = NullAddr THEN st ELSE ParseFrom(st, d)

\* the states GLL::parse can leave when the allocator's choices begin with
\* the digits o: one for each address order of the popped nodes it compares
RECURSIVE OutcomesFrom(_, _, _)
OutcomesFrom(st, d, o) ==
    Let(parse([st EXCEPT !.oracle = o], d), LAMBDA s1 :
    IF s1.wanted = 0 THEN {s1}
    ELSE UNION {OutcomesFrom(st, d, Append(o, c)) : c \in 0..(s1.wanted - 1)})

\* the states GLL::parse can leave
Outcomes(st, d) == OutcomesFrom(st, d, << >>)

\* variant of GLL::report that is silent for every kind of mismatch
report_silent(st, err) ==
    [st EXCEPT !.reported = Append(@, [err |-> err,
                                       pos |-> st.recovery_pos])]

\* GLL::report: emits "expected ..." for the mismatch err (nothing for the
\* semantic mismatches)
report(st, err) ==
    Let([st EXCEPT !.reported = Append(@, [err |-> err,
                                           pos |-> st.recovery_pos])],
        LAMBDA s0 :
    IF err.kind = NO_RULE
    THEN Let(IF err.d.address # NullAddr
             THEN getAsNonTerminal(CompAt(grammar, err.d.address))
             ELSE 1,
             LAMBDA nonterm :
         Let(initialTerminals(grammar, s0.an, nonterm), LAMBDA a1 :
         emit([s0 EXCEPT !.an = a1],
              Diagnostic(ERROR, ID_EXPECTED, Offset(s0.recovery_pos),
                         KeysOf(a1[nonterm].initial_terminals)
                            \ {TOK_EOF}))))
    ELSE IF err.kind = TERMINAL_MISMATCH
    THEN emit(s0, Diagnostic(ERROR, ID_EXPECTED, Offset(s0.recovery_pos),
                    {getAsTerminal(CompAt(grammar, err.d.address))}))
    ELSE s0)

\* ------------------------------------------------------------------------
\* Actions

\* possible values of the uninitialised return_addr_ of the GSS node u0
U0Addrs == {NullAddr, Addr(1, 0, 0)}

Unpack(st) ==
    /\ analysis' = st.an
    /\ ntokens' = st.ntokens
    /\ detached' = st.detached
    /\ taken_link' = st.taken_link
    /\ gss_' = st.gss
    /\ sppf' = st.sppf
    /\ sppf_nodes_' = st.sppf_nodes
    /\ matched_' = st.matched
    /\ popped_' = st.popped
    /\ in_progress_' = st.R
    /\ visited_' = st.U
    /\ recovery_pos_' = st.recovery_pos
    /\ poss_errors_' = st.poss_errors
    /\ lexcalls' = st.lexcalls
    /\ diagnostics_' = st.diagnostics
    /\ counts' = st.counts
    /\ delivered' = st.delivered
    /\ thrown' = st.thrown
    /\ emits' = st.emits
    /\ failed' = st.failed
    /\ reported' = st.reported
    /\ lexed' = st.lexed
    /\ pushed' = st.pushed
    /\ offered' = st.offered
    /\ toplevel' = st.toplevel
    /\ bnt' = st.bnt
    /\ replayed' = st.replayed
    /\ made' = st.made
    /\ dispatched' = st.dispatched
    /\ linked' = st.linked
    /\ ptr_order' = st.ptr_order

\* a Parser bound to a lexer and nonterminals nobody has queried yet
ParserInit ==
    /\ pc = "idle"
    /\ analysis = AnalysisInit(grammar)
    /\ ntokens = 0
    /\ detached = 0
    /\ taken_link = 0
    /\ asked = [pos |-> 0, tok |-> 0]
    /\ gss_ = << >>
    /\ sppf = << >>
    /\ sppf_nodes_ = {}
    /\ matched_ = 0
    /\ popped_ = {}
    /\ in_progress_ = << >>
    /\ visited_ = {}
    /\ recovery_pos_ = 0
    /\ poss_errors_ = << >>
    /\ result = 0
    /\ lexcalls = 0
    /\ error_limit_ = DEFAULT_ERROR_LIMIT
    /\ diagnostics_ = {}
    /\ counts = [info |-> 0, warning |-> 0, nonfatal_error |-> 0,
                 fatal_error |-> 0]
    /\ delivered = << >>
    /\ thrown = FALSE
    /\ emits = << >>
    /\ failed = << >>
    /\ reported = << >>
    /\ lexed = << >>
    /\ pushed = << >>
    /\ offered = {}
    /\ toplevel = << >>
    /\ bnt = {}
    /\ replayed = {}
    /\ made = {}
    /\ dispatched = {}
    /\ linked = << >>
    /\ added = 0
    /\ queried = 0
    /\ memo_rules = [n \in NTs(grammar) |-> << >>]

\* ------------------------------------------------------------------------
\* The raw SPPF walker (SPPFWalkerTemplate)

\* the longest trail explored
MaxTrail == 4

\* SPPFWalkerTemplate(start); start 0: no walker has been made yet
SPPFWalker(start) == [start |-> start, trail |-> << >>]

\* the child iterator at the front of the trail, dereferenced
TrailFront(w) == sppf[Head(w.trail).parent].children[Head(w.trail).idx]

\* SPPFWalkerTemplate::node
node(w) == IF w.trail = << >> THEN w.start ELSE TrailFront(w)

\* trail_.push_front(i) for the iterator i at child idx of node pos
PushFront(w, pos, idx) ==
    [w EXCEPT !.trail = << [parent |-> pos, idx |-> idx] >> \o @]

\* SPPFWalkerTemplate::backtrack
backtrack(w) ==
    IF w.trail = << >> THEN [w |-> w, ok |-> FALSE]
    ELSE [w |-> [w EXCEPT !.trail = Tail(@)], ok |-> TRUE]

\* the loop of walkLeft taken at a node without children
RECURSIVE walkLeftUp(_, _, _, _)
walkLeftUp(w, pos, prev, stop_at) ==
    IF pos = stop_at THEN [w |-> w, ok |-> FALSE]
    ELSE Let(backtrack(w), LAMBDA b :
         IF ~b.ok THEN [w |-> b.w, ok |-> FALSE]
         ELSE IF sppf[node(b.w)].children[1] # prev
         THEN [w |-> PushFront(b.w, node(b.w), 1), ok |-> TRUE]
         ELSE walkLeftUp(b.w, node(b.w), node(b.w), stop_at))

\* SPPFWalkerTemplate::walkLeft
walkLeft(w, stop_at) ==
    IF sppf[node(w)].children # << >>
    THEN [w |-> PushFront(w, node(w), 1), ok |-> TRUE]
    ELSE walkLeftUp(w, node(w), node(w), stop_at)

\* the child that walkRight's loop looks at: the second one if there is one
SecondOrOnly(pos) == IF Len(sppf[pos].children) > 1 THEN 2 ELSE 1

\* the loop of walkRight taken at a node without children
RECURSIVE walkRightUp(_, _, _, _)
walkRightUp(w, pos, prev, stop_at) ==
    IF pos = stop_at THEN [w |-> w, ok |-> FALSE]
    ELSE Let(backtrack(w), LAMBDA b :
         IF ~b.ok THEN [w |-> b.w, ok |-> FALSE]
         ELSE IF sppf[node(b.w)].children[SecondOrOnly(node(b.w))] # prev
         THEN [w |-> PushFront(b.w, node(b.w), SecondOrOnly(node(b.w))),
               ok |-> TRUE]
         ELSE walkRightUp(b.w, node(b.w), node(b.w), stop_at))

\* SPPFWalkerTemplate::walkRight
walkRight(w, stop_at) ==
    IF sppf[node(w)].children # << >>
    THEN [w |-> PushFront(w, node(w),
                          IF sppf[sppf[node(w)].children[1]].kind # PACKED
                          THEN SecondOrOnly(node(w)) ELSE 1),
          ok |-> TRUE]
    ELSE walkRightUp(w, node(w), node(w), stop_at)

\* the nodes a walker started at node x can be at: x and the nodes reachable
\* from it through child lists
RECURSIVE WalkableFrom(_)
WalkableFrom(S) ==
    Let(S \cup UNION { {sppf[x].children[i] :
                           i \in 1..Len(sppf[x].children)} : x \in S },
        LAMBDA S1 : IF S1 = S THEN S ELSE WalkableFrom(S1))

\* history record of one walker call: the operation, the value returned,
\* whether the walker was at its start node and had an empty trail before
\* the call, and whether the call left the walker as it was
WalkRecord(op, from, to, ok) ==
    [op |-> op, ok |-> ok,
     at_start |-> from.start # 0 /\ node(from) = from.start,
     top |-> from.trail = << >>,
     stayed |-> to = from,
     start |-> from.start]

\* the walker variables before a walker is made
WalkerInit ==
    /\ walker = SPPFWalker(0)
    /\ walked = WalkRecord("none", SPPFWalker(0), SPPFWalker(0), FALSE)

\* ------------------------------------------------------------------------
\* Token spellings

\* the largest value of Token::bytes_
BytesMax == 65535
\* how far beyond BytesMax the spellings explored reach
MaxExcess == 1
\* where the string literal "" of Token.cxx lies
EmptyLiteral == 0

\* u8string_view: the address of the bytes, the bytes of the first
\* character, the number of characters and the number of bytes
u8string_view(addr, lead, nchars, nbytes) ==
    [addr |-> addr, lead |-> lead, nchars |-> nchars, nbytes |-> nbytes]

\* u8string_view::has_max_size
has_max_size(s, n) == s.nchars <= n

\* characters of one, two and four bytes: 'x', e-acute, an emoji
Chars == { << 120 >>, << 195, 169 >>, << 240, 159, 152, 128 >> }

\* the spellings handed to setSpelling, each at an address of its own: the
\* empty one, single characters, short strings, and strings whose length
\* lies around BytesMax
Spellings ==
    { u8string_view(1, << >>, 0, 0) }
    \cup { u8string_view(1 + Len(c), c, 1, Len(c)) : c \in Chars }
    \cup { u8string_view(10 + n, << 120 >>, n, n) : n \in 2..3 }
    \cup { u8string_view(20, << 195, 169 >>, 2, 3) }
    \cup { u8string_view(30 + e, << 120 >>, BytesMax - 1 + e,
                         BytesMax - 1 + e) : e \in 0..(1 + MaxExcess) }
    \cup { u8string_view(40, << 195, 169 >>, (BytesMax + 1) \div 2,
                         BytesMax + 1) }

\* the view of the literal ""
NoSpelling == u8string_view(EmptyLiteral, << >>, 0, 0)

\* Token::reset, as far as the spelling goes
Token_reset(t) ==
    [t EXCEPT !.tag = 1, !.spelling_ = [addr_ |-> EmptyLiteral],
              !.bytes_ = 0]

\* Token::Token()
NewToken == Token_reset([tag |-> 0, spelling_ |-> [addr_ |-> EmptyLiteral],
                         bytes_ |-> 0])

\* variant of setSpelling that stores the length without checking it
setSpelling_truncate(t, spelling) ==
    [token |->
        IF has_max_size(spelling, 1)
        THEN IF spelling.nbytes = 0
             THEN [tag |-> 1, spelling_ |-> [addr_ |-> EmptyLiteral],
                   bytes_ |-> 0]
             ELSE [tag |-> 0, spelling_ |-> [buf_ |-> spelling.lead],
                   bytes_ |-> spelling.nbytes % (BytesMax + 1)]
        ELSE [tag |-> 1, spelling_ |-> [addr_ |-> spelling.addr],
              bytes_ |-> spelling.nbytes % (BytesMax + 1)],
     thrown |-> FALSE]

\* Token::setSpelling: the token after the call and whether
\* std::invalid_argument was thrown
setSpelling(t, spelling) ==
    IF has_max_size(spelling, 1)
    THEN [token |->
             IF spelling.nbytes = 0
             THEN [tag |-> 1, spelling_ |-> [addr_ |-> EmptyLiteral],
                   bytes_ |-> 0]
             ELSE [tag |-> 0, spelling_ |-> [buf_ |-> spelling.lead],
                   bytes_ |-> spelling.nbytes % (BytesMax + 1)],
          thrown |-> FALSE]
    ELSE IF spelling.nbytes > BytesMax
    THEN [token |-> t, thrown |-> TRUE]
    ELSE [token |-> [tag |-> 1, spelling_ |-> [addr_ |-> spelling.addr],
                     bytes_ |-> spelling.nbytes % (BytesMax + 1)],
          thrown |-> FALSE]

\* Token::spelling: a view of bytes_ bytes of the inline buffer (tag 0) or
\* at the address kept (tag 1); reading the member of the union that was
\* not written last yields "punned"
spelling(t) ==
    IF t.tag = 0
    THEN [inline |-> TRUE,
          data |-> IF "buf_" \in DOMAIN t.spelling_
                   THEN t.spelling_.buf_ ELSE "punned",
          bytes |-> t.bytes_]
    ELSE [inline |-> FALSE,
          data |-> IF "addr_" \in DOMAIN t.spelling_
                   THEN t.spelling_.addr_ ELSE "punned",
          bytes |-> t.bytes_]

\* the Token variables after construction
TokenInit ==
    /\ token = NewToken
    /\ token2 = NewToken
    /\ stored = NoSpelling
    /\ stored2 = NoSpelling
    /\ handed = NoSpelling
    /\ rejected = FALSE

Init ==
    /\ \E sc \in Scenarios :
          grammar = sc.grammar /\ input = sc.input /\ lexer = sc.lexer
    /\ ptr_order = {}
    /\ ParserInit
    /\ TokenInit
    /\ WalkerInit

\* Parser::setErrorLimit, called before the parse
setErrorLimit ==
    /\ pc = "idle"
    /\ UNCHANGED << avars, tvars, wvars, asked >>
    /\ error_limit_ = DEFAULT_ERROR_LIMIT
    /\ \E limit \in ErrorLimits : error_limit_' = limit
    /\ UNCHANGED << grammar, input, ptr_order, pc, analysis, ntokens, detached,
                    taken_link, gss_,
                    sppf, sppf_nodes_, matched_, popped_, in_progress_,
                    visited_, recovery_pos_, poss_errors_, result, lexer,
                    lexcalls, diagnostics_, counts, delivered, thrown, emits,
                    failed, reported, lexed, pushed, offered, toplevel,
                    bnt, replayed, made, dispatched, linked >>

\* Parser::parse up to the main loop of GLL::parseMain
ParseBegin ==
    /\ pc = "idle"
    /\ UNCHANGED << avars, tvars, wvars, asked >>
    /\ IF Len(grammar[1].rules) = 0 \/ counts.fatal_error # 0
       THEN pc' = "done" /\ Unpack(State)
       ELSE With(nextToken(State, 0), LAMBDA nx :
            IF nx.st.thrown \/ is(nx.tok, TOK_EOF)
            THEN pc' = "done" /\ Unpack(nx.st)
            ELSE \E u0ra \in U0Addrs :
            LET input_start == 1
                u1 == [ra |-> NullAddr, pos |-> 1]
                u0 == [ra |-> u0ra, pos |-> 0]
                norule == [d |-> Descriptor(NullAddr, u1, input_start, 0, 0,
                                            FALSE), kind |-> NO_RULE]
            IN /\ pc' = "loop"
               /\ Unpack(
                    Let(beginNonTerminal(
                           [nx.st EXCEPT
                              !.gss = (u1 :> << [child |-> u0,
                                                 sppf_node |-> 0] >>)
                                      @@ (u0 :> << >>)],
                           1, u1, input_start, 0),
                        LAMBDA b :
                    IF b.ok \/ b.st.thrown THEN b.st
                    ELSE [b.st EXCEPT
                            !.recovery_pos = input_start,
                            !.poss_errors = << norule >> \o @,
                            !.failed = Append(@, norule)])))
    /\ UNCHANGED << grammar, input, result, lexer, error_limit_ >>

\* one iteration of the main loop L0 of GLL::parseMain
ParseStep ==
    /\ pc = "loop"
    /\ UNCHANGED << avars, tvars, wvars, asked >>
    /\ ~thrown
    /\ in_progress_ # << >>
    /\ \E d \in {in_progress_[Len(in_progress_)]} :
       \E st \in {[State EXCEPT !.R = SubSeq(@, 1, Len(@) - 1)]} :
       \E s1 \in Outcomes(st, d) : Unpack(s1)
    /\ UNCHANGED << grammar, input, pc, result, lexer,
                    error_limit_ >>

\* a fatal diagnostic thrown inside GLL::parseMain unwinds to the handler of
\* Parser::parse; on the way OnExit clears the set of emitted diagnostics
ParseAbort ==
    /\ pc = "loop"
    /\ UNCHANGED << avars, tvars, wvars, asked >>
    /\ thrown
    /\ diagnostics_' = {}
    /\ result' = 0
    /\ pc' = "done"
    /\ UNCHANGED << grammar, input, ptr_order, analysis, ntokens, detached,
                    taken_link, gss_, sppf,
                    sppf_nodes_, matched_, popped_, in_progress_, visited_,
                    recovery_pos_, poss_errors_, lexer, lexcalls,
                    error_limit_, counts, delivered, thrown, emits, failed,
                    reported, lexed, pushed, offered, toplevel, bnt,
                    replayed, made, dispatched, linked >>

\* the end of GLL::parseMain and of Parser::parse
ParseEnd ==
    /\ pc = "loop"
    /\ UNCHANGED << avars, tvars, wvars, asked >>
    /\ ~thrown
    /\ in_progress_ = << >>
    /\ With(IF matched_ = 0 /\ recovery_pos_ # 0 /\ poss_errors_ # << >>
           THEN [report(State, Head(poss_errors_))
                   EXCEPT !.poss_errors = Tail(@)]
           ELSE State,
           LAMBDA s1 :
        \* Parser::parse: the result takes its tokens, and the tokens before
        \* it, out of tokens_.  SPPFNode::takeTokens sets the link of its
        \* last token to nullptr; the position token of an empty result
        \* keeps the link it had in the list: to the token read after it,
        \* or, as the last token of the list, the link that closes the list
        \* (to the token itself, or to no token)
        \E link \in IF matched_ = 0 THEN {taken_link}
                    ELSE IF ~empty(State, matched_) THEN {0}
                    ELSE IF lastToken(State, matched_) < detached + ntokens
                    THEN {lastToken(State, matched_) + 1}
                    ELSE {lastToken(State, matched_), 0} :
        Unpack([s1 EXCEPT !.sppf_nodes = {}, !.matched = 0,
                          !.diagnostics = {},
                          !.ntokens = IF matched_ # 0
                                      THEN detached + @
                                              - lastToken(State, matched_)
                                      ELSE @,
                          !.detached = IF matched_ # 0
                                       THEN lastToken(State, matched_)
                                       ELSE @,
                          !.taken_link = link]))
    /\ result' = matched_
    /\ pc' = "done"
    /\ UNCHANGED << grammar, input, lexer, error_limit_ >>

Next == setErrorLimit \/ ParseBegin \/ ParseStep \/ ParseAbort \/ ParseEnd

Spec == Init /\ [][Next]_vars

\* the grammars and inputs on which the main loop is followed to its end
LiveGrammars == {Grammars[i] : i \in DOMAIN Grammars}
LiveInputs == { << ta >>, << ta, ta >>, << ta, ta, ta >>, << tb, ta, ta >>,
                << tc, tb, ta >>, << ta, tc >>, << tc >> }

InitLive ==
    /\ grammar \in LiveGrammars
    /\ input \in LiveInputs
    /\ lexer = LX_Clean
    /\ ptr_order = {}
    /\ ParserInit
    /\ TokenInit
    /\ WalkerInit

NextLive == ParseBegin \/ ParseStep \/ ParseEnd

\* the parse as the program runs it: Parser::parse goes on to its next step
\* whenever it has one
SpecLive ==
    /\ InitLive
    /\ [][NextLive]_vars
    /\ WF_vars(ParseBegin)
    /\ WF_vars(ParseStep)
    /\ WF_vars(ParseEnd)

\* ------------------------------------------------------------------------
\* A parse followed by Parser::reset

\* variant of Parser::reset that keeps the set of emitted diagnostics
reset_keep ==
    /\ pc = "done"
    /\ ntokens' = 0
    /\ detached' = detached + ntokens
    /\ taken_link' = taken_link
    /\ counts' = [info |-> 0, warning |-> 0, nonfatal_error |-> 0,
                  fatal_error |-> 0]
    /\ pc' = "reset"
    /\ UNCHANGED << grammar, input, ptr_order, analysis, gss_, sppf,
                    sppf_nodes_, matched_, popped_, in_progress_, visited_,
                    recovery_pos_, poss_errors_, result, lexer, lexcalls,
                    error_limit_, diagnostics_, delivered, thrown, emits,
                    failed, reported, lexed, pushed, offered, toplevel, bnt,
                    replayed, made, dispatched, linked, added, queried, memo_rules >>
    /\ UNCHANGED << tvars, wvars, asked >>

\* Parser::reset, called once parse has returned: tokens_.clear(),
\* diagnostics_.clear(), DiagnosticCounter::reset().  The lexer keeps its
\* position in the input (lexcalls).
reset ==
    /\ pc = "done"
    /\ ntokens' = 0
    /\ detached' = detached + ntokens
    /\ taken_link' = taken_link
    /\ diagnostics_' = {}
    /\ counts' = [info |-> 0, warning |-> 0, nonfatal_error |-> 0,
                  fatal_error |-> 0]
    /\ pc' = "reset"
    /\ UNCHANGED << grammar, input, ptr_order, analysis, gss_, sppf,
                    sppf_nodes_, matched_, popped_, in_progress_, visited_,
                    recovery_pos_, poss_errors_, result, lexer, lexcalls,
                    error_limit_, delivered, thrown, emits, failed, reported,
                    lexed, pushed, offered, toplevel, bnt, replayed, made,
                    dispatched, linked, added,
                    queried, memo_rules >>
    /\ UNCHANGED << tvars, wvars, asked >>

NextReset == Next \/ reset

SpecReset == Init /\ [][NextReset]_vars

\* ------------------------------------------------------------------------
\* Tokens requested by the application before and after a parse

\* how many tokens past the end of the input an application asks for
MaxBeyond == 1

\* the tokens an application can hold: those of tokens_ and those of the node
\* that Parser::parse returned
LiveTokens ==
    ((detached + 1)..(detached + ntokens))
    \cup (IF result = 0 THEN {}
          ELSE IF empty(State, result) THEN {lastToken(State, result)}
          ELSE firstToken(State, result)..lastToken(State, result))

\* Parser::nextToken called by the application while no parse runs.  An
\* exception of an earlier call has left the parser; tok is 0 when the call
\* returns nullptr or throws.
NextTokenCall ==
    /\ pc \in {"idle", "done", "reset"}
    /\ \E pos \in {0} \cup LiveTokens :
          /\ (ntokens = 0 \/ pos = detached + ntokens)
                => detached + ntokens < Len(input) + 1 + MaxBeyond
          /\ With(nextToken([State EXCEPT !.thrown = FALSE], pos),
                  LAMBDA nx :
                /\ Unpack(nx.st)
                /\ asked' = [pos |-> pos,
                             tok |-> IF nx.st.thrown THEN 0 ELSE nx.tok])
    /\ UNCHANGED << grammar, input, pc, result, lexer, error_limit_ >>
    /\ UNCHANGED << avars, tvars, wvars >>

NextCalls == NextReset \/ NextTokenCall

SpecCalls == Init /\ [][NextCalls]_vars

\* ------------------------------------------------------------------------
\* Grammar queries and changes made by the application outside a parse

\* a predicate that stands alone: pred(TOK_NULL, predicate)
LonePred == Pred(T(TOK_NULL), "pass")

\* A := B 'c' | 'a' ;  B := 'b'
GA_Plain == << NT(<< Rule(<<N(2), T(tc)>>), Rule(<<T(ta)>>) >>),
               NT(<< Rule(<<T(tb)>>) >>) >>
\* A := B ;  B := ['a']
GA_Null == << NT(<< Rule(<<N(2)>>) >>),
              NT(<< Rule(<<Opt(T(ta))>>) >>) >>
\* A := 'a' | B 'c' ;  B := A 'c' | 'b'
GA_Mutual == << NT(<< Rule(<<T(ta)>>), Rule(<<N(2), T(tc)>>) >>),
                NT(<< Rule(<<N(1), T(tc)>>), Rule(<<T(tb)>>) >>) >>
\* A := A 'a' | ['b'] ;  B := A 'c'
GA_LeftRec == << NT(<< Rule(<<N(1), T(ta)>>), Rule(<<Opt(T(tb))>>) >>),
                 NT(<< Rule(<<N(1), T(tc)>>) >>) >>
\* A := 'b' | pred 'a' ;  B := A 'c'
GA_Pred == << NT(<< Rule(<<T(tb)>>), Rule(<<LonePred, T(ta)>>) >>),
              NT(<< Rule(<<N(1), T(tc)>>) >>) >>
\* A := 'a' | ['b'] | 'c' with the first two rules disabled ;  B := A
GA_Disabled == << NT(<< Disabled(Rule(<<T(ta)>>)),
                        Disabled(Rule(<<Opt(T(tb))>>)),
                        Rule(<<T(tc)>>) >>),
                  NT(<< Rule(<<N(1)>>) >>) >>
\* A := B 'c' ;  B := ['b'] A | pred
GA_Late == << NT(<< Rule(<<N(2), T(tc)>>) >>),
              NT(<< Rule(<<Opt(T(tb)), N(1)>>), Rule(<<LonePred>>) >>) >>
\* A := B 'a' ;  B := C 'b' ;  C := 'c' | ['a']
GA_Chain == << NT(<< Rule(<<N(2), T(ta)>>) >>),
               NT(<< Rule(<<N(3), T(tb)>>) >>),
               NT(<< Rule(<<T(tc)>>), Rule(<<Opt(T(ta))>>) >>) >>
\* A := B 'a' | 'b' ;  B without rules
GA_NoRules == << NT(<< Rule(<<N(2), T(ta)>>), Rule(<<T(tb)>>) >>),
                 NT(<< >>) >>

AnalysedGrammars == {GA_Plain, GA_Null, GA_Mutual, GA_LeftRec, GA_Pred,
                     GA_Disabled, GA_Late, GA_Chain, GA_NoRules}

\* the rules added with operator+=, one at a time
ExtraRules == {Rule(<<T(tc)>>), Rule(<< >>), Disabled(Rule(<<T(ta)>>)),
               Rule(<<N(1), T(tb)>>)}

\* largest number of operator+= and operator= calls that is explored
MaxAdded == 1

InitAnalysis ==
    /\ grammar \in AnalysedGrammars
    /\ input = << >>
    /\ lexer = LX_Clean
    /\ ptr_order = {}
    /\ ParserInit
    /\ TokenInit
    /\ WalkerInit

\* a query of the analysis of a nonterminal: NonTerminal::firstSet,
\* matchesEmpty and isLL1 all run initTerminalsAndLL1 with a fresh visited
\* set unless got_initial_terminals_ is set
Query ==
    /\ pc = "idle"
    /\ \E n \in NTs(grammar) :
          /\ analysis' = initialTerminals(grammar, analysis, n)
          /\ queried' = n
    /\ memo_rules' =
          [m \in NTs(grammar) |->
              IF analysis'[m].got_initial_terminals
                 /\ ~analysis[m].got_initial_terminals
              THEN [k \in NTs(grammar) |-> grammar[k].rules]
              ELSE memo_rules[m]]
    /\ UNCHANGED << grammar, input, ptr_order, pc, ntokens, detached,
                    taken_link, gss_, sppf,
                    sppf_nodes_, matched_, popped_, in_progress_, visited_,
                    recovery_pos_, poss_errors_, result, lexer, lexcalls,
                    error_limit_, diagnostics_, counts, delivered, thrown,
                    emits, failed, reported, lexed, pushed, offered,
                    toplevel, bnt, replayed, made, dispatched, linked, added >>
    /\ UNCHANGED << tvars, wvars, asked >>

\* NonTerminal::operator+=(const Rules &) with a single rule
AddRule ==
    /\ pc = "idle"
    /\ added < MaxAdded
    /\ \E n \in NTs(grammar), rule \in ExtraRules :
          /\ grammar' = [grammar EXCEPT ![n].rules = Append(@, rule)]
          /\ analysis' = [analysis EXCEPT
                             ![n].initial_terminals = NoTerminals,
                             ![n].got_initial_terminals = FALSE]
    /\ added' = added + 1
    /\ queried' = 0
    /\ UNCHANGED << input, ptr_order, pc, ntokens, detached,
                    taken_link, gss_, sppf,
                    sppf_nodes_, matched_, popped_, in_progress_, visited_,
                    recovery_pos_, poss_errors_, result, lexer, lexcalls,
                    error_limit_, diagnostics_, counts, delivered, thrown,
                    emits, failed, reported, lexed, pushed, offered,
                    toplevel, bnt, replayed, made, dispatched, linked,
                    memo_rules >>
    /\ UNCHANGED << tvars, wvars, asked >>

\* NonTerminal::operator+=(Rules &&) with a single rule, the overload taken
\* by a temporary rule list: only an enabled rule is added
AddRuleMoved ==
    /\ pc = "idle"
    /\ added < MaxAdded
    /\ \E n \in NTs(grammar), rule \in ExtraRules :
          /\ grammar' = IF rule.enabled
                        THEN [grammar EXCEPT ![n].rules = Append(@, rule)]
                        ELSE grammar
          /\ analysis' = [analysis EXCEPT
                             ![n].initial_terminals = NoTerminals,
                             ![n].got_initial_terminals = FALSE]
    /\ added' = added + 1
    /\ queried' = 0
    /\ UNCHANGED << input, ptr_order, pc, ntokens, detached,
                    taken_link, gss_, sppf,
                    sppf_nodes_, matched_, popped_, in_progress_, visited_,
                    recovery_pos_, poss_errors_, result, lexer, lexcalls,
                    error_limit_, diagnostics_, counts, delivered, thrown,
                    emits, failed, reported, lexed, pushed, offered,
                    toplevel, bnt, replayed, made, dispatched, linked,
                    memo_rules >>
    /\ UNCHANGED << tvars, wvars, asked >>

\* NonTerminal::operator=(const NonTerminal &): n takes the rules, the
\* first-set and the flags of another nonterminal m and keeps its own actions
Assign ==
    /\ pc = "idle"
    /\ added < MaxAdded
    /\ \E n \in NTs(grammar) : \E m \in NTs(grammar) \ {n} :
          /\ grammar' = [grammar EXCEPT
                            ![n] = [grammar[m] EXCEPT !.pre = grammar[n].pre,
                                                      !.post = grammar[n].post]]
          /\ analysis' = [analysis EXCEPT ![n] = analysis[m]]
          /\ memo_rules' = [memo_rules EXCEPT ![n] = memo_rules[m]]
    /\ added' = added + 1
    /\ queried' = 0
    /\ UNCHANGED << input, ptr_order, pc, ntokens, detached,
                    taken_link, gss_, sppf,
                    sppf_nodes_, matched_, popped_, in_progress_, visited_,
                    recovery_pos_, poss_errors_, result, lexer, lexcalls,
                    error_limit_, diagnostics_, counts, delivered, thrown,
                    emits, failed, reported, lexed, pushed, offered,
                    toplevel, bnt, replayed, made, dispatched, linked >>
    /\ UNCHANGED << tvars, wvars, asked >>

\* NonTerminal::operator=(NonTerminal &&): n takes the rules, the memoized
\* analysis and the actions of m; m is left with no rules, no actions and no
\* terminals, and keeps its flags
AssignMoved ==
    /\ pc = "idle"
    /\ added < MaxAdded
    /\ \E n \in NTs(grammar) : \E m \in NTs(grammar) \ {n} :
          /\ grammar' = [grammar EXCEPT
                            ![n] = grammar[m],
                            ![m] = [grammar[m] EXCEPT !.rules = << >>,
                                                      !.pre = << >>,
                                                      !.post = << >>]]
          /\ analysis' = [analysis EXCEPT
                             ![n] = analysis[m],
                             ![m].initial_terminals = NoTerminals]
          /\ memo_rules' = [memo_rules EXCEPT ![n] = memo_rules[m]]
    /\ added' = added + 1
    /\ queried' = 0
    /\ UNCHANGED << input, ptr_order, pc, ntokens, detached,
                    taken_link, gss_, sppf,
                    sppf_nodes_, matched_, popped_, in_progress_, visited_,
                    recovery_pos_, poss_errors_, result, lexer, lexcalls,
                    error_limit_, diagnostics_, counts, delivered, thrown,
                    emits, failed, reported, lexed, pushed, offered,
                    toplevel, bnt, replayed, made, dispatched, linked >>
    /\ UNCHANGED << tvars, wvars, asked >>

NextAnalysis == Query \/ AddRule \/ AddRuleMoved \/ Assign \/ AssignMoved

SpecAnalysis == InitAnalysis /\ [][NextAnalysis]_vars

\* ------------------------------------------------------------------------
\* Operations on tokens made by a lexer

InitToken ==
    /\ grammar = G_None
    /\ input = << >>
    /\ lexer = LX_Clean
    /\ ptr_order = {}
    /\ ParserInit
    /\ TokenInit
    /\ WalkerInit

\* t.setSpelling(s)
SetSpelling ==
    /\ \E s \in Spellings :
          With(setSpelling(token, s), LAMBDA r :
              /\ token' = r.token
              /\ rejected' = r.thrown
              /\ stored' = IF r.thrown THEN stored ELSE s
              /\ handed' = s)
    /\ UNCHANGED << token2, stored2 >>
    /\ UNCHANGED << pvars, wvars, asked >>

\* Token t2(t)
CopyConstruct ==
    /\ token2' = token
    /\ stored2' = stored
    /\ handed' = NoSpelling
    /\ rejected' = FALSE
    /\ UNCHANGED << token, stored >>
    /\ UNCHANGED << pvars, wvars, asked >>

\* t = t2
CopyAssign ==
    /\ token' = token2
    /\ stored' = stored2
    /\ handed' = NoSpelling
    /\ rejected' = FALSE
    /\ UNCHANGED << token2, stored2 >>
    /\ UNCHANGED << pvars, wvars, asked >>

\* t.reset()
ResetToken ==
    /\ token' = Token_reset(token)
    /\ stored' = NoSpelling
    /\ handed' = NoSpelling
    /\ rejected' = FALSE
    /\ UNCHANGED << token2, stored2 >>
    /\ UNCHANGED << pvars, wvars, asked >>

NextToken == SetSpelling \/ CopyConstruct \/ CopyAssign \/ ResetToken

SpecToken == InitToken /\ [][NextToken]_vars

\* ------------------------------------------------------------------------
\* Walks over the forest of a finished parse

\* the grammars and inputs whose forests are walked
WalkGrammars == {G_Ambig, G_Cyclic, G_LeftRec, G_Opt, G_Empty}
WalkInputs == { << ta >>, << ta, ta >>, << ta, ta, ta >>, << tb, ta >>,
                << ta, tb, tc >>, << ta, tc >>, << tc >> }

InitWalk ==
    /\ grammar \in WalkGrammars
    /\ input \in WalkInputs
    /\ lexer = LX_Clean
    /\ ptr_order = {}
    /\ ParserInit
    /\ TokenInit
    /\ WalkerInit

\* the values given as stop_at: none, the start node, the parent of the
\* current node
StopAts(w) ==
    {0, w.start} \cup (IF w.trail = << >> THEN {}
                       ELSE {Head(w.trail).parent})

\* walker.reset(new_start), or the construction of a walker
ResetWalker ==
    /\ pc = "done" /\ result # 0
    /\ \E new_start \in WalkableFrom({result}) :
          /\ walker' = SPPFWalker(new_start)
          /\ walked' = WalkRecord("reset", SPPFWalker(new_start),
                                   SPPFWalker(new_start), TRUE)
    /\ UNCHANGED << pvars, tvars, asked >>

WalkLeft ==
    /\ walker.start # 0
    /\ Len(walker.trail) < MaxTrail
    /\ \E stop_at \in StopAts(walker) :
          With(walkLeft(walker, stop_at), LAMBDA r :
              /\ walker' = r.w
              /\ walked' = WalkRecord("walkLeft", walker, r.w, r.ok))
    /\ UNCHANGED << pvars, tvars, asked >>

WalkRight ==
    /\ walker.start # 0
    /\ Len(walker.trail) < MaxTrail
    /\ \E stop_at \in StopAts(walker) :
          With(walkRight(walker, stop_at), LAMBDA r :
              /\ walker' = r.w
              /\ walked' = WalkRecord("walkRight", walker, r.w, r.ok))
    /\ UNCHANGED << pvars, tvars, asked >>

Backtrack ==
    /\ walker.start # 0
    /\ With(backtrack(walker), LAMBDA r :
           /\ walker' = r.w
           /\ walked' = WalkRecord("backtrack", walker, r.w, r.ok))
    /\ UNCHANGED << pvars, tvars, asked >>

NextWalk ==
    \/ ParseBegin \/ ParseStep \/ ParseEnd
    \/ ResetWalker \/ WalkLeft \/ WalkRight \/ Backtrack

SpecWalk == InitWalk /\ [][NextWalk]_vars


\* ------------------------------------------------------------------------
\* Properties

SppfIds == 1..Len(sppf)
ChildSet(x) == {sppf[x].children[i] : i \in 1..Len(sppf[x].children)}
IsParentKind(x) == sppf[x].kind \in {NONTERMINAL, INTERMEDIATE}

\* the nodes reachable from a set of SPPF nodes through child links
RECURSIVE Descendants(_, _)
Descendants(frontier, seen) ==
    IF frontier = {} THEN seen
    ELSE LET nxt == UNION {ChildSet(x) : x \in frontier} \ seen
         IN Descendants(nxt, seen \cup nxt)

\* rule r of n matches no token when the nonterminals in S do
RuleNullable(G, S, n, r) ==
    /\ RuleOf(G, n, r).enabled
    /\ \A i \in 1..RuleLen(G, n, r) :
          \/ RuleOf(G, n, r).comps[i].optional
          \/ /\ ~RuleOf(G, n, r).comps[i].isTerminal
             /\ RuleOf(G, n, r).comps[i].sym \in S

RECURSIVE NullableFrom(_, _)
NullableFrom(G, S) ==
    LET S1 == S \cup {n \in NTs(G) :
                        \E r \in 0..(Len(G[n].rules) - 1) :
                            RuleNullable(G, S, n, r)}
    IN IF S1 = S THEN S ELSE NullableFrom(G, S1)

\* the nonterminals that can match zero tokens
Nullable(G) == NullableFrom(G, {})

\* the nonterminals whose first-sets the analysis of n copies: those at a
\* position of an enabled rule that only components matching no token
\* precede
Leading(G, n) ==
    {m \in NTs(G) :
        \E r \in 0..(Len(G[n].rules) - 1) :
            /\ RuleOf(G, n, r).enabled
            /\ \E i \in 1..RuleLen(G, n, r) :
                  /\ ~RuleOf(G, n, r).comps[i].isTerminal
                  /\ RuleOf(G, n, r).comps[i].sym = m
                  /\ \A j \in 1..(i - 1) :
                        \/ RuleOf(G, n, r).comps[j].optional
                        \/ /\ ~RuleOf(G, n, r).comps[j].isTerminal
                           /\ RuleOf(G, n, r).comps[j].sym \in Nullable(G)}

RECURSIVE DependsOn(_, _)
DependsOn(G, S) ==
    LET S1 == S \cup UNION {Leading(G, n) : n \in S}
    IN IF S1 = S THEN S ELSE DependsOn(G, S1)

\* the nonterminals that a derivation of n can begin with before any token
\* is matched, in one or more steps
LeftCorners(G, n) == DependsOn(G, Leading(G, n))

\* the left-recursive nonterminals of a grammar
LeftRecursive(G) == {n \in NTs(G) : n \in LeftCorners(G, n)}

\* the GSS nodes reachable from a set of GSS nodes through edges
GssChildren(v) == {gss_[v][i].child : i \in 1..Len(gss_[v])}
RECURSIVE GssDescendants(_, _)
GssDescendants(frontier, seen) ==
    IF frontier = {} THEN seen
    ELSE LET nxt == UNION {GssChildren(v) : v \in frontier} \ seen
         IN GssDescendants(nxt, seen \cup nxt)

\* C1: every tuple (input_pos, slot, gss_head, sppf_so_far) is pushed onto R
\* at most once: the tuples pushed so far are pairwise distinct, they are
\* exactly the visited set U, and every descriptor waiting in R is in U
C1_PushedOnce ==
    /\ \A i, j \in 1..Len(pushed) : i # j => pushed[i] # pushed[j]
    /\ {pushed[i] : i \in 1..Len(pushed)} = visited_
    /\ \A i \in 1..Len(in_progress_) :
          VisitedItem(in_progress_[i].input_pos, in_progress_[i].address,
                      in_progress_[i].gss_head, in_progress_[i].sppf_node)
             \in visited_

\* C1 witness: a descriptor was handed to add() a second time and refused
C1_Witness ==
    /\ Len(pushed) >= 2
    /\ \E r \in bnt : ~r.immediate /\ r.count > r.grown

\* C2: a symbol or intermediate node has only packed children, or only
\* non-packed children and then at most two
C2_ChildrenNotMixed ==
    \A x \in SppfIds : IsParentKind(x) =>
        \/ \A c \in ChildSet(x) : sppf[c].kind = PACKED
        \/ /\ \A c \in ChildSet(x) : sppf[c].kind # PACKED
           /\ Len(sppf[x].children) <= 2

\* C2 witness: a parse returned a forest in which a node has two different
\* packed children
C2_Witness ==
    /\ pc = "done"
    /\ result # 0
    /\ \E x \in Descendants({result}, {result}) :
          /\ IsParentKind(x)
          /\ Cardinality(ChildSet(x)) >= 2

\* C3: a packed node has one or two children, and none of them is packed
C3_PackedChildren ==
    \A x \in SppfIds : sppf[x].kind = PACKED =>
        /\ Len(sppf[x].children) \in {1, 2}
        /\ \A c \in ChildSet(x) :
              sppf[c].kind \in {NONTERMINAL, TERMINAL, INTERMEDIATE}

\* C3 witness: a parse returned a forest that holds a packed node with one
\* child and a packed node with two, and a delegate was hidden
C3_Witness ==
    /\ pc = "done"
    /\ result # 0
    /\ \E x, y \in SppfIds :
          /\ sppf[x].kind = PACKED /\ Len(sppf[x].children) = 1
          /\ sppf[y].kind = PACKED /\ Len(sppf[y].children) = 2
    /\ \E x \in SppfIds : \E c \in ChildSet(x) :
          /\ sppf[x].kind = PACKED
          /\ sppf[c].kind = NONTERMINAL
          /\ CompAt(grammar, sppf[x].label).sym # sppf[c].label.nt

\* C4: no two symbol or intermediate nodes share a key (kind, label,
\* first-token, last-token), in the canonicalization set and among all the
\* nodes the requests have returned
C4_Canonical ==
    /\ \A x, y \in SppfIds :
          /\ sppf[x].kind # PACKED
          /\ sppf[x].kind = sppf[y].kind
          /\ sppf[x].label = sppf[y].label
          /\ sppf[x].first = sppf[y].first
          /\ sppf[x].last = sppf[y].last
          => x = y
    /\ pc = "loop" =>
          sppf_nodes_ = {x \in SppfIds : sppf[x].kind # PACKED}

\* C4 witness: a node that has children of its own was requested again and
\* is shared by two packed nodes
C4_Witness ==
    /\ pc = "loop"
    /\ \E x \in sppf_nodes_ : \E p, q \in SppfIds :
          /\ p # q
          /\ sppf[x].children # << >>
          /\ sppf[p].kind = PACKED /\ x \in ChildSet(p)
          /\ sppf[q].kind = PACKED /\ x \in ChildSet(q)

\* C5: under one parent no two entries of the child list are packed nodes
\* with the same (slot, pivot, empty?) triple
C5_OnePackedPerTriple ==
    \A x \in SppfIds : \A i, j \in 1..Len(sppf[x].children) :
        LET a == sppf[sppf[x].children[i]]
            b == sppf[sppf[x].children[j]]
        IN (i # j /\ a.kind = PACKED /\ b.kind = PACKED)
             => ~(a.label = b.label /\ a.last = b.last
                                    /\ (a.first = 0) = (b.first = 0))

\* C6 as stated: the GSS is acyclic, no GSS node reaches itself
C6_GssAcyclic ==
    \A v \in DOMAIN gss_ : v \notin GssDescendants({v}, {})

\* C6 amended: every GSS edge leads to a node whose input position is not
\* later, so that a cycle can only connect nodes at one input position; and
\* a GSS node lies on a cycle only if the nonterminal called at its slot is
\* left-recursive.  So the GSS is acyclic for every grammar without left
\* recursion.
C6_EdgesNotForward ==
    /\ \A v \in DOMAIN gss_ : \A w \in GssChildren(v) : w.pos <= v.pos
    /\ \A v \in DOMAIN gss_ :
          v \in GssDescendants({v}, {})
             => /\ v.ra # NullAddr
                /\ v.pos >= 1
                /\ getAsNonTerminal(CompAt(grammar, v.ra))
                      \in LeftRecursive(grammar)
    /\ LeftRecursive(grammar) = {}
          => \A v \in DOMAIN gss_ : v \notin GssDescendants({v}, {})

\* C6 witness: left recursion gave the GSS node of a slot that calls a
\* left-recursive nonterminal an edge to itself, and another edge leads back
\* to an earlier input position
C6_Witness ==
    /\ \E v \in DOMAIN gss_ :
          /\ v \in GssChildren(v)
          /\ getAsNonTerminal(CompAt(grammar, v.ra)) \in LeftRecursive(grammar)
    /\ \E v \in DOMAIN gss_ : \E w \in GssChildren(v) :
          w.pos >= 1 /\ w.pos < v.pos

\* C7: no SPPF node is reachable from itself through child links
C7_SppfAcyclic ==
    \A x \in SppfIds : x \notin Descendants({x}, {})

\* C8 as stated: every call of beginNonTerminal on a token whose kind is a
\* key of the first-set puts at least one descriptor on R
C8_DescriptorInR ==
    \A r \in bnt : r.in_first => r.grown >= 1

\* C8 amended: when the token kind is a key of the first-set and the
\* pre-parse actions accept, beginNonTerminal succeeds: it parsed a rule at
\* once (fast path) or handed at least one descriptor to add()
C8_RuleDispatched ==
    \A r \in bnt : (r.in_first /\ \A i \in DOMAIN grammar[r.nt].pre :
                                   grammar[r.nt].pre[i]) =>
        /\ r.ok
        /\ r.immediate \/ r.count >= 1
        /\ r.immediate => r.count = 0

\* C8 witness: a fast-path call that left nothing on R, and a call whose
\* descriptors add() refused
C8_Witness ==
    /\ \E r \in bnt : r.in_first /\ r.immediate /\ r.grown = 0
    /\ \E r \in bnt : r.in_first /\ ~r.immediate /\ r.count >= 1
                                 /\ r.grown = 0

\* the continuation descriptor of popped node z along the edge e of v
IsContinuation(d, v, e, z) ==
    /\ d.address = NextAddr(v.ra)
    /\ d.gss_head = e.child
    /\ d.input_pos = sppf[z].last
    /\ d.advance = (sppf[z].first # 0)
    /\ d.sppf_node # 0
    /\ IF AtEnd(grammar, NextAddr(v.ra))
       THEN sppf[d.sppf_node].kind = NONTERMINAL
            /\ sppf[d.sppf_node].label = NTLabel(v.ra.nt)
       ELSE sppf[d.sppf_node].kind = INTERMEDIATE
            /\ sppf[d.sppf_node].label = v.ra

\* C9: for every edge of a GSS node v and every result z recorded in P for
\* v, the continuation descriptor was offered to add(), whether the edge
\* was there when v popped or was added afterwards
C9_PopsReplayed ==
    \A v \in DOMAIN gss_ : v.ra # NullAddr /\ v.pos # 0 =>
        \A i \in 1..Len(gss_[v]) : \A p \in popped_ :
            p.stack_head = v =>
                \E d \in offered : IsContinuation(d, v, gss_[v][i],
                                                  p.parsed_node)

\* C9 witness: create added an edge to a node that had popped and replayed
\* the recorded result
C9_Witness ==
    \E r \in replayed : \E p \in popped_ :
        /\ p.parsed_node = r.z
        /\ p.stack_head.ra = r.ra
        /\ \E i \in 1..Len(gss_[p.stack_head]) :
              /\ gss_[p.stack_head][i].child = r.gss_head
              /\ \E d \in offered :
                    IsContinuation(d, p.stack_head, gss_[p.stack_head][i],
                                   r.z)

\* the first of the top-level pops that reaches the greatest last-token
\* offset (0 when there was none)
LongestFirst ==
    IF toplevel = << >> THEN 0
    ELSE LET best == CHOOSE i \in 1..Len(toplevel) :
                 /\ \A j \in 1..Len(toplevel) :
                       Offset(sppf[toplevel[j]].last)
                          <= Offset(sppf[toplevel[i]].last)
                 /\ \A j \in 1..(i - 1) :
                       Offset(sppf[toplevel[j]].last)
                          < Offset(sppf[toplevel[i]].last)
         IN toplevel[best]

\* C10: matched_, and in the end the result of a parse() that was not aborted
\* by a fatal diagnostic, is the first of the top-level pops with the
\* greatest last-token offset
C10_LongestMatch ==
    /\ pc = "loop" => matched_ = LongestFirst
    /\ (pc = "done" /\ ~thrown) => result = LongestFirst

\* C10 witness: a parse returned after a top-level match was kept against a
\* different one of equal extent and then replaced by a longer one
C10_Witness ==
    /\ pc = "done"
    /\ \E i, j, k \in 1..Len(toplevel) :
          /\ i < j /\ j < k
          /\ toplevel[i] # toplevel[j]
          /\ sppf[toplevel[i]].last = sppf[toplevel[j]].last
          /\ sppf[toplevel[k]].last > sppf[toplevel[i]].last
          /\ result = toplevel[k]

\* number of derivation trees a node of the forest stands for: the packed
\* children of a node are alternatives, the children of a packed node and
\* the symbol children of a node are a sequence
RECURSIVE Derivations(_)
RECURSIVE SumDerivations(_)
RECURSIVE ProductDerivations(_)
SumDerivations(xs) ==
    IF xs = {} THEN 0
    ELSE LET x == CHOOSE y \in xs : TRUE
         IN Derivations(x) + SumDerivations(xs \ {x})
ProductDerivations(cs) ==
    IF cs = << >> THEN 1
    ELSE Derivations(Head(cs)) * ProductDerivations(Tail(cs))
Derivations(x) ==
    IF sppf[x].children = << >> THEN 1
    ELSE IF sppf[x].kind # PACKED /\ sppf[sppf[x].children[1]].kind = PACKED
    THEN SumDerivations(ChildSet(x))
    ELSE ProductDerivations(sppf[x].children)

\* number of derivations of the tokens i..j of the input from the components
\* idx.. of rule r of nonterminal n, and from nonterminal n, for a grammar
\* whose components are not optional and match at least one token each
RECURSIVE RuleDerivations(_, _, _, _, _)
RECURSIVE NTDerivations(_, _, _)
RECURSIVE SplitDerivations(_, _, _, _, _, _)
RECURSIVE RulesDerivations(_, _, _, _)
RuleDerivations(n, r, idx, i, j) ==
    IF idx = RuleLen(grammar, n, r) THEN (IF i = j + 1 THEN 1 ELSE 0)
    ELSE IF j - i + 1 < RuleLen(grammar, n, r) - idx THEN 0
    ELSE LET comp == CompAt(grammar, Addr(n, r, idx))
         IN IF comp.isTerminal
            THEN IF input[i] = comp.sym
                 THEN RuleDerivations(n, r, idx + 1, i + 1, j)
                 ELSE 0
            ELSE SplitDerivations(n, r, idx, i, i, j)
\* the nonterminal at idx takes the tokens i..k, for every k from k0 on that
\* leaves a token to each of the later components and, at idx 0 of a rule
\* of its own nonterminal, is a shorter span than the whole
SplitDerivations(n, r, idx, i, k0, j) ==
    IF k0 > j - (RuleLen(grammar, n, r) - idx - 1) THEN 0
    ELSE NTDerivations(CompAt(grammar, Addr(n, r, idx)).sym, i, k0)
            * RuleDerivations(n, r, idx + 1, k0 + 1, j)
         + SplitDerivations(n, r, idx, i, k0 + 1, j)
RulesDerivations(n, r, i, j) ==
    IF r = Len(grammar[n].rules) THEN 0
    ELSE RuleDerivations(n, r, 0, i, j) + RulesDerivations(n, r + 1, i, j)
NTDerivations(n, i, j) == RulesDerivations(n, 0, i, j)

\* the grammars for which NTDerivations is defined and that are ambiguous
AmbigGrammars == {G_Ambig}

\* C11: for an ambiguous grammar the parse returns a root whose first child
\* is packed, and the forest below the root holds as many derivations as the
\* grammar has for the matched tokens
C11_AllDerivations ==
    (pc = "done" /\ grammar \in AmbigGrammars /\ result # 0)
        => /\ sppf[result].kind = NONTERMINAL
           /\ sppf[result].children # << >>
           /\ sppf[sppf[result].children[1]].kind = PACKED
           /\ Derivations(result)
                 = NTDerivations(1, sppf[result].first, sppf[result].last)

\* the intermediate nodes built by getNodeP for the slot after a leading
\* component that is the rule's own nonterminal (left is null there)
RecursiveHeads ==
    {x \in SppfIds : /\ sppf[x].kind = INTERMEDIATE
                     /\ sppf[x].label.idx = 0
                     /\ ~CompAt(grammar, sppf[x].label).isTerminal
                     /\ CompAt(grammar, sppf[x].label).sym = sppf[x].label.nt}

\* the symbol node of nonterminal n with the extent of node x
SameExtent(x, n) ==
    {y \in SppfIds : /\ sppf[y].kind = NONTERMINAL
                     /\ sppf[y].label = NTLabel(n)
                     /\ sppf[y].first = sppf[x].first
                     /\ sppf[y].last = sppf[x].last}

\* C12: the node built for a self-recursive leading slot is flat when the
\* nonterminal does not keep recursion: it has no packed child of its own
\* slot, its children are children of the recursive symbol node of the same
\* extent; with keep_recursion it is nested: its children are packed nodes of
\* its own slot whose only child is that symbol node
C12_FlatUnlessKept ==
    \A x \in RecursiveHeads :
        LET n == sppf[x].label.nt
        IN /\ sppf[x].children # << >>
           /\ IF grammar[n].keepRecursion
              THEN \A p \in ChildSet(x) :
                      /\ sppf[p].kind = PACKED
                      /\ sppf[p].label = sppf[x].label
                      /\ Len(sppf[p].children) = 1
                      /\ sppf[p].children[1] \in SameExtent(x, n)
              ELSE /\ \A p \in ChildSet(x) :
                         sppf[p].kind = PACKED => sppf[p].label # sppf[x].label
                   /\ \E y \in SameExtent(x, n) :
                         ChildSet(x) \subseteq ChildSet(y)

\* C12 witness: a returned forest with a flattened node of S and a nested
\* node of E, for S := S 'a' | E, E := E 'b' | 'c' where only E keeps
\* recursion
C12_Witness ==
    /\ pc = "done" /\ result # 0
    /\ \E x, z \in RecursiveHeads :
          /\ ~grammar[sppf[x].label.nt].keepRecursion
          /\ \E y \in SameExtent(x, sppf[x].label.nt) :
                ChildSet(x) = ChildSet(y) /\ ChildSet(y) # {}
          /\ \E q \in ChildSet(result) : x \in ChildSet(q)
          /\ grammar[sppf[z].label.nt].keepRecursion
          /\ \E p \in ChildSet(z) : sppf[p].label = sppf[z].label

\* the (id, offset) pair of a diagnostic
PairOf(d) == << d.id, d.offset >>

\* C13: within a parse no two delivered diagnostics have the same
\* (id, offset); an emission is suppressed exactly when its pair was emitted
\* before, and only delivered diagnostics are counted
C13_NoDuplicateDelivered ==
    /\ \A i, j \in 1..Len(delivered) :
          i # j => PairOf(delivered[i]) # PairOf(delivered[j])
    /\ \A k \in 1..Len(emits) :
          emits[k].suppressed
             <=> \E j \in 1..(k - 1) : PairOf(emits[j].d) = PairOf(emits[k].d)
    /\ Len(delivered)
          = Cardinality({k \in 1..Len(emits) : ~emits[k].suppressed})
    /\ counts.info + counts.warning + counts.nonfatal_error
          + counts.fatal_error = Len(delivered)

\* C13 witness: an error of the lexer was emitted a second time at the same
\* offset, suppressed, and the parse went on with only the delivered errors
\* counted
C13_Witness ==
    /\ \E k \in 1..Len(emits) :
          /\ emits[k].suppressed
          /\ emits[k].d.category = ERROR
          /\ \E j \in 1..(k - 1) : emits[j].d = emits[k].d
    /\ Len(delivered) < Len(emits)
    /\ counts.nonfatal_error = Len(delivered)
    /\ ~thrown

\* C14: when parse() has returned, whatever the outcome, the set of emitted
\* (id, offset) pairs is empty
C14_DedupCleared == pc = "done" => diagnostics_ = {}

\* C15: a fatal diagnostic is the last thing parse() emits and throws at
\* once; from then on no descriptor is processed, no token is read, nothing
\* is reported, and parse() returns null
C15_FatalAborts ==
    /\ [](/\ thrown <=> counts.fatal_error > 0
          /\ \A i \in 1..Len(emits) :
                (emits[i].d.category = FATAL_ERROR /\ ~emits[i].suppressed)
                   => i = Len(emits)
          /\ (thrown /\ pc = "done") => result = 0)
    /\ [][thrown => /\ pc' = "done"
                    /\ result' = 0
                    /\ UNCHANGED << in_progress_, visited_, gss_, sppf,
                                    popped_, matched_, ntokens, detached,
                                    taken_link, lexcalls,
                                    emits, delivered, counts, reported,
                                    pushed, offered >>]_vars

\* C15 witness: parse() returned null after a fatal diagnostic thrown in the
\* main loop while descriptors were waiting
C15_Witness ==
    /\ pc = "done" /\ thrown /\ result = 0
    /\ in_progress_ # << >>
    /\ delivered # << >>
    /\ delivered[Len(delivered)].category = FATAL_ERROR
    /\ Len(sppf) > 0

\* the delivered diagnostics "error limit reached"
LimitFatals ==
    {i \in 1..Len(delivered) : delivered[i].id = ID_ERROR_LIMIT}

\* C16: as soon as the errors reported, by the lexer or by the parser, reach
\* the error limit there is exactly one fatal "error limit reached"
\* diagnostic, and there is never more than one
C16_LimitFatalOnce ==
    /\ Cardinality(LimitFatals) <= 1
    /\ counts.nonfatal_error >= error_limit_
          => /\ Cardinality(LimitFatals) = 1
             /\ \A i \in LimitFatals : delivered[i].category = FATAL_ERROR

\* number of diagnostics of category ERROR among the first i delivered
ErrorsUpTo(i) ==
    Cardinality({j \in 1..i : delivered[j].category = ERROR})

\* C17: the fatal "error limit reached" diagnostic appears only once more
\* than error_limit_ errors have been reported: the first error_limit_
\* errors are delivered without it
C17_FatalOnOverflow ==
    \A i \in LimitFatals : ErrorsUpTo(i) > error_limit_

\* the failures whose offset is not before that of any earlier failure
Farthest == {k \in 1..Len(failed) :
                \A j \in 1..(k - 1) : Offset(failed[j].d.input_pos)
                                         <= Offset(failed[k].d.input_pos)}

\* the first k failures that are in Farthest, the latest first
RECURSIVE Candidates(_)
Candidates(k) ==
    IF k = 0 THEN << >>
    ELSE IF k \in Farthest THEN << failed[k] >> \o Candidates(k - 1)
    ELSE Candidates(k - 1)

\* C18: a failure is recorded as a candidate exactly when no earlier failure
\* lies farther in the input; the position kept is the farthest offset of all
\* failures; the mismatch handed to report is the latest of the failures at
\* that farthest offset
C18_FarthestMismatch ==
    /\ pc = "loop" => poss_errors_ = Candidates(Len(failed))
    /\ (pc = "loop" /\ failed # << >>)
          => \A k \in 1..Len(failed) :
                Offset(failed[k].d.input_pos) <= Offset(recovery_pos_)
    /\ \A i \in 1..Len(reported) :
          /\ i = 1
          /\ \E k \in 1..Len(failed) :
                /\ reported[i].err = failed[k]
                /\ reported[i].pos = failed[k].d.input_pos
                /\ \A j \in 1..Len(failed) :
                      /\ Offset(failed[j].d.input_pos)
                            <= Offset(failed[k].d.input_pos)
                      /\ Offset(failed[j].d.input_pos)
                            = Offset(failed[k].d.input_pos) => j <= k

\* C18 witness: a failed parse reported the later of two different
\* mismatches at the farthest offset, and a failure at a nearer offset that
\* came after a farther one was not recorded
C18_Witness ==
    /\ pc = "done" /\ result = 0 /\ Len(reported) = 1
    /\ \E j, k \in 1..Len(failed) :
          /\ j < k
          /\ failed[j] # failed[k]
          /\ failed[j].d.input_pos = failed[k].d.input_pos
          /\ reported[1].err = failed[k]
    /\ \E j, k \in 1..Len(failed) :
          /\ j < k
          /\ Offset(failed[k].d.input_pos) < Offset(failed[j].d.input_pos)
    /\ Len(poss_errors_) + 1 < Len(failed)

\* the delivered diagnostics "expected ..." of GLL::report
ExpectedDiags ==
    {i \in 1..Len(delivered) : delivered[i].id = ID_EXPECTED}

\* a parse() that went through the main loop and ended without a match
\* because rules failed
FailedParse == pc = "done" /\ ~thrown /\ result = 0 /\ failed # << >>

\* C19 as stated: a parse that fails because of mismatches reports exactly
\* one diagnostic, whatever the kind of the farthest mismatch
C19_ExactlyOne == FailedParse => Cardinality(ExpectedDiags) = 1

\* C19 amended: a parse that fails because of mismatches hands exactly one
\* mismatch to report; that gives exactly one error at the farthest position
\* when the mismatch is NO_RULE or TERMINAL_MISMATCH and none when it is
\* PREDICATE_FAILED or POST_ACTION_FAILED; no other parse reports a mismatch
C19_OneUnlessSemantic ==
    /\ Cardinality(ExpectedDiags) <= 1
    /\ Cardinality(ExpectedDiags) <= Len(reported)
    /\ (pc = "done" /\ ~FailedParse) => reported = << >>
    /\ FailedParse
          => /\ Len(reported) = 1
             /\ IF reported[1].err.kind \in {NO_RULE, TERMINAL_MISMATCH}
                THEN \E i \in ExpectedDiags :
                        /\ delivered[i].category = ERROR
                        /\ delivered[i].offset = Offset(reported[1].pos)
                ELSE ExpectedDiags = {}

\* C19 witness: a parse failed with a terminal mismatch and, later at the
\* farthest offset, a failed predicate, and nothing was reported to the user
C19_Witness ==
    /\ FailedParse
    /\ Len(reported) = 1
    /\ reported[1].err.kind = PREDICATE_FAILED
    /\ \E k \in 1..Len(failed) : failed[k].kind = TERMINAL_MISMATCH
    /\ delivered = << >>

\* the k-th call of the lexer returned TOK_NULL for the token of call k
NullAt(k) == lexed[k].null
\* ... and no error was counted during it
QuietNullAt(k) == lexed[k].null /\ lexed[k].after = lexed[k].before

\* the calls k - 2, k - 1 and k were made for one token, one after the other
SameToken(k) ==
    /\ k >= 3
    /\ lexed[k - 2].next = lexed[k].next
    /\ lexed[k - 1].next = lexed[k].next

\* the fatal diagnostic "lexer not returning any tokens" was delivered
NoTokensFatal ==
    \E i \in 1..Len(delivered) :
        delivered[i].id = ID_NO_TOKENS /\ delivered[i].category = FATAL_ERROR

\* C20 as stated: three consecutive TOK_NULL returns for the token at one
\* offset raise the fatal "lexer not returning any tokens"
C20_ThreeNullsFatal ==
    \A k \in 1..Len(lexed) :
        (SameToken(k) /\ NullAt(k - 2) /\ NullAt(k - 1) /\ NullAt(k))
            => NoTokensFatal /\ thrown

\* C20 amended: the fatal diagnostic is raised, and the parse aborted, by the
\* third of three consecutive TOK_NULL returns for one token during which no
\* error was counted, and only then; a lexer that returns nothing but
\* TOK_NULL without reporting errors is called exactly three times
C20_QuietStrikesFatal ==
    /\ \A k \in 1..Len(lexed) :
          (SameToken(k) /\ QuietNullAt(k - 2) /\ QuietNullAt(k - 1)
              /\ QuietNullAt(k))
             => /\ NoTokensFatal /\ thrown
                /\ k = Len(lexed)
                /\ delivered[Len(delivered)].id = ID_NO_TOKENS
                /\ delivered[Len(delivered)].offset = Offset(lexed[k].next)
    /\ NoTokensFatal
          => LET k == Len(lexed)
             IN /\ SameToken(k)
                /\ QuietNullAt(k - 2) /\ QuietNullAt(k - 1) /\ QuietNullAt(k)
    /\ (lexer.script = << >> /\ lexer.tail = "nulls" /\ pc = "done")
          => Len(lexed) = 3 /\ thrown /\ result = 0

\* C20 witness: after a first token the lexer returned TOK_NULL three times
\* without an error, and the parse was aborted with the fatal diagnostic
C20_Witness ==
    /\ pc = "done" /\ thrown /\ result = 0
    /\ NoTokensFatal
    /\ Len(lexed) = 4
    /\ ~lexed[1].null
    /\ QuietNullAt(2) /\ QuietNullAt(3) /\ QuietNullAt(4)

\* ------------------------------------------------------------------------
\* C21: parse returns None whenever the first token of the input is TOK_EOF,
\* whatever the start nonterminal (one that matches empty included), and it
\* does so before anything of the GLL algorithm has run: no GSS node, no
\* descriptor, no SPPF node, no call of beginNonTerminal.

\* the start nonterminal has a rule made of optional components only
StartHasEmptyRule ==
    \E r \in 1..Len(grammar[1].rules) :
        /\ grammar[1].rules[r].enabled
        /\ \A i \in 1..Len(grammar[1].rules[r].comps) :
              grammar[1].rules[r].comps[i].optional

C21_EofFirstNone ==
    (ntokens >= 1 /\ KindAt(1) = TOK_EOF /\ ~thrown)
        => /\ pc = "done"
           /\ result = 0
           /\ gss_ = << >>
           /\ in_progress_ = << >>
           /\ pushed = << >>
           /\ bnt = {}
           /\ sppf = << >>

C21_Witness ==
    /\ pc = "done"
    /\ ntokens = 1
    /\ KindAt(1) = TOK_EOF
    /\ ~thrown
    /\ StartHasEmptyRule
    /\ result = 0

\* ------------------------------------------------------------------------
\* C22: parse on a start nonterminal without any enabled rule (no rule at
\* all, or disabled rules only) returns None and emits no diagnostic.

\* the nonterminal n of the grammar has no enabled rule
NoEnabledRule(n) ==
    \A r \in 1..Len(grammar[n].rules) : ~grammar[n].rules[r].enabled

C22_NoRuleNoneQuiet ==
    (pc = "done" /\ NoEnabledRule(1)) => (result = 0 /\ emits = << >>)

\* ------------------------------------------------------------------------
\* C23: rules flagged disabled are skipped during analysis and parsing: no
\* rule index recorded in a first-set belongs to a disabled rule, and no
\* descriptor is ever created for a slot of a disabled rule, also when the
\* first-set is empty and every rule is tried.

\* the rule indices recorded in the first-set of nonterminal n
FirstSetRules(n) ==
    UNION {{analysis[n].initial_terminals[k][i] :
               i \in 1..Len(analysis[n].initial_terminals[k])} : k \in Kinds}

C23_DisabledSkipped ==
    /\ \A n \in NTs(grammar) : \A r \in FirstSetRules(n) :
          RuleOf(grammar, n, r).enabled
    /\ \A i \in 1..Len(pushed) :
          pushed[i].address # NullAddr
              => RuleOf(grammar, pushed[i].address.nt,
                        pushed[i].address.rule).enabled

\* ------------------------------------------------------------------------
\* C24: reset() empties the parser's token list and its set of emitted
\* diagnostics and leaves the lexer binding (the lexer and its position in
\* the input) unchanged.
C24_ResetClears ==
    [][(pc = "done" /\ pc' = "reset")
          => /\ ntokens' = 0
             /\ diagnostics_' = {}
             /\ lexer' = lexer
             /\ lexcalls' = lexcalls
             /\ input' = input]_vars

\* reset after a parse that returned early, with tokens read and with the
\* set of emitted diagnostics still holding the diagnostics of that parse
C24_Witness ==
    /\ pc = "reset"
    /\ ntokens = 0
    /\ diagnostics_ = {}
    /\ lexcalls > 0
    /\ gss_ = << >>
    /\ delivered # << >>

\* ------------------------------------------------------------------------
\* C25: nextToken(pos) returns the token that follows pos and nextToken(null)
\* the first token; the lexer is called only for a token that has not been
\* read yet.  So for null and for every token that was read before the last
\* one, a request returns the same token whenever it is made and changes
\* nothing, and the tokens are one chain in input order: every call of the
\* lexer fills the token behind the one filled before.

\* the calls of Lexer::lex so far filled the tokens 1, 2, ... in this order,
\* repeating a token only after a TOK_NULL
TokensInOrder ==
    /\ Len(lexed) = lexcalls
    /\ detached + ntokens
          = (IF lexed = << >> THEN 0 ELSE lexed[Len(lexed)].next)
    /\ lexed # << >> => lexed[1].next = 1
    /\ \A i \in 1..(Len(lexed) - 1) :
          lexed[i + 1].next = (IF lexed[i].null THEN lexed[i].next
                               ELSE lexed[i].next + 1)

C25_NextTokenStable ==
    /\ TokensInOrder
    /\ \A pos \in 0..(detached + ntokens - 1) :
          nextToken(State, pos) = [st |-> State, tok |-> pos + 1]

\* ------------------------------------------------------------------------
\* C26: matchesEmpty(N) is true if and only if some enabled rule of N can
\* match zero tokens: every component of the rule is optional or is a
\* nonterminal that itself matches empty (the least solution of this
\* condition), nonterminals reached through recursion included.

C26_MatchesEmptyIff ==
    added = 0
        => \A n \in NTs(grammar) :
              matchesEmpty(grammar, analysis, n) <=> n \in Nullable(grammar)

\* ------------------------------------------------------------------------
\* C27: the analysis does not depend on the order of the queries: as long as
\* no rule is added, firstSet(N) returns the mapping it returns when N is
\* the first nonterminal queried, whichever nonterminals were analysed
\* before.
C27_OrderIndependent ==
    added = 0
        => \A n \in NTs(grammar) :
              firstSet(grammar, analysis, n)
                  = firstSet(grammar, AnalysisInit(grammar), n)

\* ------------------------------------------------------------------------
\* C28: a query never returns a stale memoized analysis: the result of the
\* latest query on N was computed from the current rules of N and of every
\* nonterminal that N's first-set depends on.

C28_NeverStale ==
    queried # 0
        => /\ memo_rules[queried] # << >>
           /\ \A m \in DependsOn(grammar, {queried}) :
                 memo_rules[queried][m] = grammar[m].rules

\* ------------------------------------------------------------------------
\* C29: an indeterminate analysis yields an empty first-set and is_ll1 =
\* false: once N is analysed, if an enabled rule of N starts with a lone
\* predicate or with a nonterminal whose own first-set is empty, then the
\* first-set of N is empty and N is not LL(1).

\* rule r of n starts with a lone predicate or with an analysed nonterminal
\* whose first-set is empty
StartsIndeterminate(n, r) ==
    /\ RuleOf(grammar, n, r).enabled
    /\ RuleLen(grammar, n, r) > 0
    /\ LET c == RuleOf(grammar, n, r).comps[1]
       IN IF c.isTerminal
          THEN c.sym = TOK_NULL /\ c.pred # "none"
          ELSE /\ analysis[c.sym].got_initial_terminals
               /\ TerminalsEmpty(analysis[c.sym].initial_terminals)

C29_IndeterminateEmpty ==
    added = 0
        => \A n \in NTs(grammar) :
              (/\ analysis[n].got_initial_terminals
               /\ \E r \in 0..(Len(grammar[n].rules) - 1) :
                     StartsIndeterminate(n, r))
                  => /\ TerminalsEmpty(analysis[n].initial_terminals)
                     /\ ~analysis[n].is_ll1

\* ------------------------------------------------------------------------
\* C30: getNodeP(slot, left, right) returns a nonterminal symbol node
\* labelled by the nonterminal of slot's rule when slot is the last component
\* of its rule, and an intermediate node labelled by slot otherwise; in both
\* cases the tokens of the node cover the tokens of left and of right.

\* the tokens of node x include those of node y (0: no node)
Covers(x, y) ==
    \/ y = 0
    \/ sppf[y].first = 0
    \/ /\ sppf[x].first # 0
       /\ sppf[x].first <= sppf[y].first
       /\ sppf[y].last <= sppf[x].last

\* slot is the last component of its rule
LastSlot(slot) == slot.idx + 1 = RuleLen(grammar, slot.nt, slot.rule)

C30_ParentNode ==
    \A c \in made :
        /\ IF LastSlot(c.slot)
           THEN /\ sppf[c.node].kind = NONTERMINAL
                /\ sppf[c.node].label = NTLabel(c.slot.nt)
           ELSE /\ sppf[c.node].kind = INTERMEDIATE
                /\ sppf[c.node].label = c.slot
        /\ Covers(c.node, c.left)
        /\ Covers(c.node, c.right)
        /\ sppf[c.node].first = 0
              => (c.left = 0 \/ sppf[c.left].first = 0)
                    /\ sppf[c.right].first = 0

\* one parse in which getNodeP combined a non-empty left and a non-empty
\* right both on the last slot of a rule and on an earlier slot
C30_Witness ==
    \E c1, c2 \in made :
        /\ LastSlot(c1.slot)
        /\ ~LastSlot(c2.slot)
        /\ \A c \in {c1, c2} :
              /\ c.left # 0
              /\ sppf[c.left].first # 0
              /\ sppf[c.right].first # 0
              /\ sppf[c.left].last < sppf[c.right].first

\* ------------------------------------------------------------------------
\* C31: the token range getNodeP gives the parent: its left extent is the
\* first non-empty among left.first, right.first, right.last, and its right
\* extent is right.last if right is non-empty, else left.last (right.last
\* when there is no left).  With an empty left and a non-empty right the
\* left extent is right.first.

\* left extent stated by C31 for the call c (0: no token)
StatedLeftExtent(c) ==
    IF c.left # 0 /\ sppf[c.left].first # 0 THEN sppf[c.left].first
    ELSE IF sppf[c.right].first # 0 THEN sppf[c.right].first
    ELSE sppf[c.right].last

\* right extent stated by C31 for the call c
StatedRightExtent(c) ==
    IF sppf[c.right].first # 0 THEN sppf[c.right].last
    ELSE IF c.left # 0 THEN sppf[c.left].last
    ELSE sppf[c.right].last

C31_Extents ==
    \A c \in made :
        /\ sppf[c.node].first = StatedLeftExtent(c)
        /\ sppf[c.node].last = StatedRightExtent(c)

\* C31 as the code has it: a parent of empty nodes only is itself empty
\* (no left extent); otherwise the left extent is left.first if left is
\* non-empty, else right.first; the right extent is as stated.
C31_ExtentsOrEmpty ==
    \A c \in made :
        /\ sppf[c.node].first =
              (IF c.left # 0 /\ sppf[c.left].first # 0
               THEN sppf[c.left].first
               ELSE sppf[c.right].first)
        /\ sppf[c.node].last = StatedRightExtent(c)

\* one parse with a call on an empty left and a non-empty right and a call
\* on empty nodes only
C31_Witness ==
    \E c1, c2 \in made :
        /\ c1.left # 0
        /\ sppf[c1.left].first = 0
        /\ sppf[c1.right].first # 0
        /\ sppf[c1.node].first = sppf[c1.right].first
        /\ sppf[c2.right].first = 0
        /\ c2.left # 0 => sppf[c2.left].first = 0
        /\ sppf[c2.node].first = 0

\* ------------------------------------------------------------------------
\* C32: after GLL::parse has dispatched a nonterminal component (create and
\* beginNonTerminal), it returns to the main loop and the descriptor does
\* not continue past the component; only an optional nonterminal whose guard
\* fails proceeds in place with an empty node.

\* the component a dispatch record is about
DispatchedComp(r) == CompAt(grammar, r.d.address)

C32_ReturnAfterDispatch ==
    \A r \in dispatched :
        /\ r.guard => r.outcome # "continue"
        /\ r.outcome = "continue"
              => DispatchedComp(r).optional /\ ~r.guard

\* C32 as the code has it: a non-optional nonterminal never proceeds in
\* place: when it was begun the descriptor returns to the main loop, when
\* not the rule ends with NO_RULE.  An optional nonterminal that does not
\* match empty and whose continuation is not in the visited set proceeds in
\* place with an empty node whether its guard failed or it was dispatched.
C32_InPlaceIffSkipOptional ==
    \A r \in dispatched :
        /\ r.begun => r.guard
        /\ ~DispatchedComp(r).optional => r.outcome # "continue"
        /\ r.outcome = "continue" <=> r.skip_optional
        /\ r.outcome = "return" <=> (r.begun /\ ~r.skip_optional)
        /\ r.skip_optional
              => /\ DispatchedComp(r).optional
                 /\ ~analysis[DispatchedComp(r).sym].matches_empty
        /\ r.outcome = "continue"
              => \E c \in made :
                    /\ c.slot = r.d.address
                    /\ c.left = r.d.sppf_node
                    /\ sppf[c.right].kind = TERMINAL
                    /\ sppf[c.right].first = 0
                    /\ sppf[c.right].last = r.d.input_pos

\* an optional nonterminal that was dispatched and skipped in place, and a
\* non-optional one after which the descriptor returned to the main loop
C32_Witness ==
    \E r1, r2 \in dispatched :
        /\ DispatchedComp(r1).optional
        /\ r1.guard /\ r1.begun
        /\ r1.outcome = "continue"
        /\ ~DispatchedComp(r2).optional
        /\ r2.begun
        /\ r2.outcome = "return"

\* ------------------------------------------------------------------------
\* C33: test(input, N, rest of rule) accepts iff the first set of N is empty
\* or holds the current token, or N matches empty and the follow set admits
\* the token, the follow set being walked through the rest of the rule and,
\* where the rest of the rule can match empty, through the outer rules that
\* called it; it rejects when no outer continuation admits the token.

\* the first set of n admits the token kind (an empty first set admits all)
FirstAdmits(n, tok) ==
    \/ TerminalsEmpty(analysis[n].initial_terminals)
    \/ analysis[n].initial_terminals[tok] # << >>

\* the follow walk carried on through the GSS: at the end of a rule the
\* continuation of every caller is asked; the bottom of the stack admits all
RECURSIVE StatedFollow(_, _, _, _)
StatedFollow(addr, h, tok, seen) ==
    IF AtEnd(grammar, addr)
    THEN IF h \in seen THEN FALSE
         ELSE IF h \notin DOMAIN gss_ \/ h.ra = NullAddr THEN TRUE
         ELSE \E i \in 1..Len(gss_[h]) :
                 StatedFollow(NextAddr(h.ra), gss_[h][i].child, tok,
                              seen \cup {h})
    ELSE IF CompAt(grammar, addr).isTerminal
    THEN \/ CompAt(grammar, addr).sym = tok
         \/ /\ CompAt(grammar, addr).optional
            /\ StatedFollow(NextAddr(addr), h, tok, seen)
    ELSE \/ FirstAdmits(CompAt(grammar, addr).sym, tok)
         \/ /\ analysis[CompAt(grammar, addr).sym].matches_empty
            /\ StatedFollow(NextAddr(addr), h, tok, seen)

\* the follow walk confined to the rest of the rule: a rest that is used up
\* admits every token
RECURSIVE RestAdmits(_, _)
RestAdmits(addr, tok) ==
    IF AtEnd(grammar, addr) THEN TRUE
    ELSE IF CompAt(grammar, addr).isTerminal
    THEN \/ CompAt(grammar, addr).sym = tok
         \/ /\ CompAt(grammar, addr).optional
            /\ RestAdmits(NextAddr(addr), tok)
    ELSE \/ FirstAdmits(CompAt(grammar, addr).sym, tok)
         \/ /\ analysis[CompAt(grammar, addr).sym].matches_empty
            /\ RestAdmits(NextAddr(addr), tok)

C33_FollowThroughOuter ==
    \A r \in dispatched :
        r.guard <=>
            \/ FirstAdmits(DispatchedComp(r).sym, KindAt(r.d.input_pos))
            \/ /\ analysis[DispatchedComp(r).sym].matches_empty
               /\ StatedFollow(NextAddr(r.d.address), r.d.gss_head,
                               KindAt(r.d.input_pos), {})

\* C33 as the code has it: the follow walk stops at the end of the rule and
\* then admits every token; no outer rule is consulted.
C33_FollowWithinRule ==
    \A r \in dispatched :
        r.guard <=>
            \/ FirstAdmits(DispatchedComp(r).sym, KindAt(r.d.input_pos))
            \/ /\ analysis[DispatchedComp(r).sym].matches_empty
               /\ RestAdmits(NextAddr(r.d.address), KindAt(r.d.input_pos))

\* a nonterminal that matches empty was accepted on a token outside its
\* first set because the rest of its rule was used up, although the
\* continuation of the only caller does not admit the token
C33_Witness ==
    \E r \in dispatched :
        /\ r.guard
        /\ ~FirstAdmits(DispatchedComp(r).sym, KindAt(r.d.input_pos))
        /\ analysis[DispatchedComp(r).sym].matches_empty
        /\ AtEnd(grammar, NextAddr(r.d.address))
        /\ r.d.gss_head \in DOMAIN gss_
        /\ r.d.gss_head.ra # NullAddr
        /\ ~StatedFollow(NextAddr(r.d.address), r.d.gss_head,
                         KindAt(r.d.input_pos), {})

\* ------------------------------------------------------------------------
\* C34: a component's predicate is called before the component is matched;
\* when it returns false on a non-optional component the rule ends at once
\* with PREDICATE_FAILED: no SPPF node is built for the component and the
\* descriptor performs no pop.

\* rule r of the start symbol is begun on the first token and its components
\* before the one at index k are plain terminals matching the input, so that
\* the parse reaches component k, whose predicate fails
LeadsToPred(r, k) ==
    /\ grammar[1].rules[r + 1].enabled
    /\ CompAt(grammar, Addr(1, r, 0)).isTerminal
    /\ CompAt(grammar, Addr(1, r, 0)).sym = KindAt(1)
    /\ \A i \in 0..(k - 1) :
          /\ CompAt(grammar, Addr(1, r, i)).isTerminal
          /\ ~CompAt(grammar, Addr(1, r, i)).optional
          /\ CompAt(grammar, Addr(1, r, i)).pred # "fail"
          /\ CompAt(grammar, Addr(1, r, i)).sym = KindAt(1 + i)
    /\ CompAt(grammar, Addr(1, r, k)).pred = "fail"
    /\ ~CompAt(grammar, Addr(1, r, k)).optional

\* the component addresses of the start symbol's rules, as (rule, index)
StartSlots ==
    UNION { {<< r, k >> : k \in 0..(RuleLen(grammar, 1, r) - 1)} :
            r \in 0..(Len(grammar[1].rules) - 1) }

\* getNodeP was called for the component at address a or a later one of
\* its rule (a rule that completes calls it for its last component)
BuiltFrom(a) ==
    \E c \in made :
        c.slot.nt = a.nt /\ c.slot.rule = a.rule /\ c.slot.idx >= a.idx

C34_PredicateFailed ==
    /\ \A i \in 1..Len(failed) :
          failed[i].kind = PREDICATE_FAILED
             => /\ CompAt(grammar, failed[i].d.address).pred = "fail"
                /\ ~CompAt(grammar, failed[i].d.address).optional
                /\ ~BuiltFrom(failed[i].d.address)
    /\ \A i \in 1..Len(failed) :
          /\ failed[i].d.address # NullAddr
          /\ ~AtEnd(grammar, failed[i].d.address)
          /\ CompAt(grammar, failed[i].d.address).pred = "fail"
          /\ ~CompAt(grammar, failed[i].d.address).optional
          => failed[i].kind = PREDICATE_FAILED
    /\ pc = "done" /\ ~thrown
          => \A a \in StartSlots :
                LeadsToPred(a[1], a[2])
                   => /\ \E i \in 1..Len(failed) :
                            /\ failed[i].kind = PREDICATE_FAILED
                            /\ failed[i].d.address = Addr(1, a[1], a[2])
                            /\ failed[i].d.input_pos = 1 + a[2]
                      /\ ~BuiltFrom(Addr(1, a[1], a[2]))

\* the parse reached a component whose predicate fails and whose terminal is
\* not the current token; the rule ended with PREDICATE_FAILED
C34_Witness ==
    /\ pc = "done" /\ ~thrown
    /\ \E a \in StartSlots :
          /\ LeadsToPred(a[1], a[2])
          /\ CompAt(grammar, Addr(1, a[1], a[2])).sym # KindAt(1 + a[2])
          /\ \E i \in 1..Len(failed) :
                /\ failed[i].kind = PREDICATE_FAILED
                /\ failed[i].d.address = Addr(1, a[1], a[2])

\* ------------------------------------------------------------------------
\* C35: at the end of a rule the post-parse actions run; a false verdict
\* from any of them ends the rule with POST_ACTION_FAILED and the pop is not
\* performed (nothing is added to P, no continuation descriptor is made);
\* the pop takes place only when all of them accept.

\* some post-parse action of nonterminal n rejects
PostRejects(n) == \E i \in DOMAIN grammar[n].post : ~grammar[n].post[i]

\* the nonterminal whose call a GSS node stands for
CalledAt(h) == IF h.ra = NullAddr THEN 1 ELSE CompAt(grammar, h.ra).sym

\* the nonterminal whose completion a continuation descriptor follows
\* (0 for a descriptor that begins a rule)
ContinuedAfter(d) ==
    IF d.address = NullAddr THEN 1
    ELSE IF d.address.idx = 0 THEN 0
    ELSE CompAt(grammar, [d.address EXCEPT !.idx = @ - 1]).sym

\* rule r of the start symbol consists of plain terminals that match the
\* input from its first token on, so that the rule is begun and reaches its
\* end
MatchesPlain(r) ==
    /\ grammar[1].rules[r + 1].enabled
    /\ RuleLen(grammar, 1, r) >= 1
    /\ \A i \in 0..(RuleLen(grammar, 1, r) - 1) :
          /\ CompAt(grammar, Addr(1, r, i)).isTerminal
          /\ ~CompAt(grammar, Addr(1, r, i)).optional
          /\ CompAt(grammar, Addr(1, r, i)).pred # "fail"
          /\ CompAt(grammar, Addr(1, r, i)).sym = KindAt(1 + i)

\* a node for the start symbol covering the first n tokens was popped at the
\* top level
PoppedTop(n) ==
    \E p \in popped_ :
        /\ p.stack_head = [ra |-> NullAddr, pos |-> 1]
        /\ sppf[p.parsed_node].first = 1
        /\ sppf[p.parsed_node].last = n

C35_PostActionGate ==
    /\ \A i \in 1..Len(failed) :
          failed[i].kind = POST_ACTION_FAILED
             => /\ AtEnd(grammar, failed[i].d.address)
                /\ PostRejects(failed[i].d.address.nt)
    /\ \A p \in popped_ : ~PostRejects(CalledAt(p.stack_head))
    /\ \A d \in offered :
          ContinuedAfter(d) # 0 => ~PostRejects(ContinuedAfter(d))
    /\ PostRejects(1) => toplevel = << >> /\ result = 0
    /\ pc = "done" /\ ~thrown
          => \A r \in 0..(Len(grammar[1].rules) - 1) :
                MatchesPlain(r)
                   => IF PostRejects(1)
                      THEN \E i \in 1..Len(failed) :
                              /\ failed[i].kind = POST_ACTION_FAILED
                              /\ failed[i].d.address
                                    = Addr(1, r, RuleLen(grammar, 1, r))
                      ELSE PoppedTop(RuleLen(grammar, 1, r))

\* a rule of a nonterminal with a rejecting and an accepting post-parse
\* action matched its components and ended with POST_ACTION_FAILED
C35_Witness ==
    /\ pc = "done" /\ ~thrown
    /\ PostRejects(1)
    /\ \E i \in DOMAIN grammar[1].post : grammar[1].post[i]
    /\ \E r \in 0..(Len(grammar[1].rules) - 1) : MatchesPlain(r)
    /\ \E i \in 1..Len(failed) : failed[i].kind = POST_ACTION_FAILED
    /\ popped_ = {}

\* ------------------------------------------------------------------------
\* C36: the pre-parse actions are invoked before a candidate rule is
\* accepted, on the fast path and on the descriptor path alike; when one of
\* them rejects, the rule is skipped silently: no descriptor is created for
\* it, none of its components is matched and no mismatch or diagnostic is
\* recorded for it.

\* some pre-parse action of nonterminal n rejects
PreRejects(n) == \E i \in DOMAIN grammar[n].pre : ~grammar[n].pre[i]

\* beginNonTerminal call r has exactly one candidate rule for the current
\* token and the nonterminal does not match empty (the fast path)
FastCandidate(r) ==
    /\ ~analysis[r.nt].matches_empty
    /\ Len(analysis[r.nt].initial_terminals[KindAt(r.input_pos)]) = 1

C36_PreActionGate ==
    \A n \in NTs(grammar) :
        PreRejects(n)
           => /\ \A d \in offered : d.address.nt # n
              /\ \A i \in 1..Len(pushed) : pushed[i].address.nt # n
              /\ \A v \in visited_ : v.address.nt # n
              /\ \A c \in made : c.slot.nt # n
              /\ \A r \in dispatched : r.d.address.nt # n
              /\ \A i \in 1..Len(failed) : failed[i].d.address.nt # n
              /\ \A i \in 1..Len(reported) : reported[i].err.d.address.nt # n
              /\ \A i \in 1..Len(poss_errors_) :
                    poss_errors_[i].d.address.nt # n
              /\ \A r \in bnt :
                    r.nt = n => ~r.ok /\ ~r.immediate /\ r.count = 0
                                /\ r.grown = 0

\* a nonterminal whose pre-parse actions reject was begun with a single
\* candidate rule (fast path), another with several (descriptor path)
C36_Witness ==
    \E r1, r2 \in bnt :
        /\ PreRejects(r1.nt) /\ r1.in_first /\ FastCandidate(r1)
        /\ PreRejects(r2.nt) /\ r2.in_first /\ ~FastCandidate(r2)

\* ------------------------------------------------------------------------
\* C37: a packed child added to a node that already has children is
\* prepended, so that the most recently added packed child is always the
\* first child; a child added to a node without children, or a non-packed
\* child, is appended.

\* the calls of addChild on node x, as indices into the history
LinksOf(x) == {i \in 1..Len(linked) : linked[i].node = x}

\* the calls of addChild on node x, in the order they were made
LinkedTo(x) == SelectSeq(linked, LAMBDA l : l.node = x)

\* the child list that the calls i..Len(ls) of the calls ls on one node leave
\* behind when cs is the list before call i, each child placed as C37 says
RECURSIVE PlacedFrom(_, _, _)
PlacedFrom(ls, i, cs) ==
    IF i > Len(ls) THEN cs
    ELSE IF sppf[ls[i].child].kind = PACKED /\ cs # << >>
    THEN PlacedFrom(ls, i + 1, << ls[i].child >> \o cs)
    ELSE PlacedFrom(ls, i + 1, Append(cs, ls[i].child))

C37_PackedFirst ==
    \A x \in 1..Len(sppf) :
        /\ sppf[x].children = PlacedFrom(LinkedTo(x), 1, << >>)
        /\ \A i \in LinksOf(x) :
              /\ sppf[linked[i].child].kind = PACKED
              /\ \A j \in LinksOf(x) :
                    sppf[linked[j].child].kind = PACKED => j <= i
              => sppf[x].children[1] = linked[i].child

\* a packed child was added to a node that had a child already and is its
\* first child; a non-packed child was added to a node that had a child and
\* is its last child
C37_Witness ==
    /\ \E x \in 1..Len(sppf) :
          \E i, j \in LinksOf(x) :
              /\ i < j
              /\ sppf[linked[j].child].kind = PACKED
              /\ sppf[x].children[1] = linked[j].child
              /\ sppf[x].children[2] = linked[i].child
    /\ \E y \in 1..Len(sppf) :
          \E i, j \in LinksOf(y) :
              /\ i < j
              /\ sppf[linked[j].child].kind # PACKED
              /\ sppf[y].children = << linked[i].child, linked[j].child >>

\* ------------------------------------------------------------------------
\* C38: Token::setSpelling followed by spelling() returns a view byte-equal
\* to the original for every spelling up to the maximum length: the empty
\* and the multi-character spellings are referenced externally (tag 1), a
\* one-character spelling is copied into the inline buffer (tag 0), a
\* copied token keeps spelling and tag, and a spelling longer than the
\* maximum is rejected with an error, not truncated.

\* view v shows the bytes of spelling s
ByteEqual(v, s) ==
    /\ v.bytes = s.nbytes
    /\ IF v.inline THEN v.data = s.lead /\ s.nchars = 1
       ELSE v.bytes = 0 \/ v.data = s.addr

\* the tag C38 states for a spelling
StatedTag(s) == IF s.nchars = 1 THEN 0 ELSE 1

C38_SpellingKept ==
    /\ ByteEqual(spelling(token), stored)
    /\ token.tag = StatedTag(stored)
    /\ ByteEqual(spelling(token2), stored2)
    /\ token2.tag = StatedTag(stored2)
    /\ rejected <=> handed.nbytes > BytesMax
    /\ ~rejected => stored = handed \/ handed = NoSpelling
    /\ stored.nbytes <= BytesMax /\ stored2.nbytes <= BytesMax

\* the token holds a spelling of the maximum length, a longer one has just
\* been rejected, and the copy holds a character of several bytes inline
C38_Witness ==
    /\ rejected
    /\ stored.nbytes = BytesMax
    /\ token.tag = 1
    /\ token2.tag = 0
    /\ Len(stored2.lead) > 1

\* ------------------------------------------------------------------------
\* C39: the raw SPPF walker never traverses past its start node upward: for
\* every sequence of walkLeft, walkRight and backtrack calls the current
\* node is the start node or one of its descendants, and backtrack at the
\* start node reports failure and leaves the walker in place.

\* the walker is on a node below (or at) its start node, reached through a
\* chain of child lists that begins at the start node
OnTrailFromStart(w) ==
    /\ node(w) \in WalkableFrom({w.start})
    /\ \A i \in 1..Len(w.trail) :
          /\ w.trail[i].idx \in 1..Len(sppf[w.trail[i].parent].children)
          /\ w.trail[i].parent =
                IF i = Len(w.trail) THEN w.start
                ELSE sppf[w.trail[i + 1].parent].children[w.trail[i + 1].idx]

C39_NeverAboveStart ==
    walker.start # 0
       => /\ OnTrailFromStart(walker)
          /\ walked.op # "reset" => walker.start = walked.start
          /\ walked.op = "backtrack" /\ walked.at_start
                => ~walked.ok /\ walked.stayed

\* ------------------------------------------------------------------------
\* C40: for every grammar (left-recursive, ambiguous and empty-matching ones
\* included) and every input the main loop terminates: R becomes empty after
\* finitely many parse steps, the GSS nodes and the visited tuples being
\* bounded by the grammar and the input.

\* the component addresses of the grammar, rule ends included
Slots ==
    UNION { UNION { {Addr(n, r, i) : i \in 0..RuleLen(grammar, n, r)} :
                    r \in 0..(Len(grammar[n].rules) - 1) } :
            n \in NTs(grammar) }

\* the positions a token pointer can take: none, the tokens of the input
\* and the TOK_EOF token behind them
Positions == 0..(Len(input) + 1)

\* GSS nodes, GSS edges, visited tuples and the extents and labels of SPPF
\* nodes are drawn from sets fixed by the grammar and the input, no edge is
\* kept twice and no tuple is pushed onto R twice
LoopBounded ==
    /\ \A v \in DOMAIN gss_ : \A i \in 1..Len(gss_[v]) :
          /\ gss_[v][i].child \in DOMAIN gss_
          /\ gss_[v][i].sppf_node \in 0..Len(sppf)
          /\ \A j \in 1..Len(gss_[v]) : gss_[v][i] = gss_[v][j] => i = j
    /\ \A x \in 1..Len(sppf) :
          /\ sppf[x].first \in Positions
          /\ sppf[x].last \in Positions
          /\ sppf[x].label \in Slots \cup {NullAddr}
                                  \cup {NTLabel(n) : n \in NTs(grammar)}
    /\ \A v \in DOMAIN gss_ :
          v.ra \in Slots \cup {NullAddr} /\ v.pos \in Positions
    /\ \A v \in visited_ :
          /\ v.address \in Slots \cup {NullAddr}
          /\ v.input_pos \in Positions
          /\ v.gss_head \in DOMAIN gss_
          /\ v.sppf_node \in 0..Len(sppf)
    /\ Cardinality(DOMAIN gss_)
          <= (Cardinality(Slots) + 1) * Cardinality(Positions)
    /\ Len(pushed) = Cardinality(visited_)
    /\ Len(in_progress_) <= Cardinality(visited_)

C40_LoopTerminates ==
    /\ [](pc # "idle" => LoopBounded)
    /\ (pc = "loop") ~> (in_progress_ = << >> \/ thrown)

\* the loop has run dry on a grammar that is left recursive and ambiguous,
\* after several descriptors
C40_Witness ==
    /\ pc = "loop"
    /\ in_progress_ = << >>
    /\ grammar = G_Ambig
    /\ Len(pushed) >= 4

=============================================================================
